---- MODULE Spec2Model ----
(***************************************************************************)
(* Foodgram backend: recipes with short links, tags and ingredient rows,    *)
(* the per-user shopping cart and its download.  The database is the       *)
(* shared state; every request is handled by a worker that issues its ORM  *)
(* statements one at a time (Django autocommit, no transaction around a    *)
(* request), so requests interleave between statements.                    *)
(***************************************************************************)
EXTENDS Integers, Sequences, FiniteSets, TLC

\* ---------------------------------------------------------------- bounds
MaxRecipes == 3      \* primary keys handed out to recipes
MaxDraws == 2        \* distinct outcomes of the random source
MaxCartRows == 2     \* primary keys handed out to shopping-cart rows
MaxFavoriteRows == 2  \* primary keys handed out to favorite rows

Procs == {"w1", "w2"}          \* concurrent request workers
Users == {"u1", "u2"}          \* authenticated users

RecipeIds == 1..MaxRecipes
Names == {"borsch", "soup"}     \* recipe names a request may carry

\* ------------------------------------------------------ program constants
ShortUrlLen == 6     \* k=6 in random.choices

\* string.ascii_lowercase, string.ascii_uppercase, string.digits
ascii_lowercase ==
    << "a","b","c","d","e","f","g","h","i","j","k","l","m",
       "n","o","p","q","r","s","t","u","v","w","x","y","z" >>
ascii_uppercase ==
    << "A","B","C","D","E","F","G","H","I","J","K","L","M",
       "N","O","P","Q","R","S","T","U","V","W","X","Y","Z" >>
digits == << "0","1","2","3","4","5","6","7","8","9" >>
ascii_letters == ascii_lowercase \o ascii_uppercase

\* the population generate_short_url draws from
Alphabet == ascii_letters \o digits

\* random.choices(population, k=k): k independent draws with replacement.
\* The random source is sampled: outcome s picks index (11*s*i mod n) for the
\* i-th character, which spreads the samples over letters and digits.
random_choices(population, k, s) ==
    [i \in 1..k |-> population[((s * i * 11) % Len(population)) + 1]]

\* a draw that is one character short
new_short_url_short(s) == random_choices(Alphabet, ShortUrlLen - 1, s)

\* short_url = ''.join(random.choices(ascii_letters + digits, k=6))
new_short_url(s) == random_choices(Alphabet, ShortUrlLen, s)

\* ------------------------------------------------------------ data model
NoToken == << >>                 \* short_link NULL / ''
NoRecipe == [short_link |-> NoToken, author |-> "", name |-> ""]
NoInst == [pk |-> 0, short_link |-> NoToken, author |-> "", name |-> ""]
NoReq == [op |-> "none", user |-> "", rid |-> 0]
NoResponse == [op |-> "none", status |-> 0]

\* table ingredients_ingredient in primary-key order; (name, measurement_unit)
\* is unique, so an ingredient is its key
Ingredients ==
    << [name |-> "flour", measurement_unit |-> "g"],
       [name |-> "egg", measurement_unit |-> "pcs"] >>
IngredientIds == 1..Len(Ingredients)

\* table tags_tag: the primary keys that exist
TagIds == {1, 2}

\* The tables whose rows reference a recipe through a foreign key with
\* on_delete=CASCADE: "tags" the through table of Recipe.tags, "ingredients"
\* RecipeIngredient, "cart" ShoppingCart and "favorites" Favorite of
\* recipes/models.py, "list" ShoppingList of the list app and "favs" Favorite
\* of the favorites app.  The deletion of a recipe reaches the tables in the
\* order in which their models are registered: the models of a module in
\* the order of their definition, the applications in the order of
\* INSTALLED_APPS, which the settings module fixes.
RecipesTables == << "tags", "ingredients", "cart", "favorites" >>
CascadeOrders ==
    { << "list" >> \o << "favs" >> \o RecipesTables,
      << "favs" >> \o << "list" >> \o RecipesTables,
      << "list" >> \o RecipesTables \o << "favs" >>,
      << "favs" >> \o RecipesTables \o << "list" >>,
      RecipesTables \o << "list" >> \o << "favs" >>,
      RecipesTables \o << "favs" >> \o << "list" >> }

\* the body of a recipe request: initial_data['tags'], the validated
\* 'recipe_ingredients' items and cooking_time
NoData == [tags |-> << >>, ingredients |-> << >>, cooking_time |-> 0]

VARIABLES
    recipes,     \* table recipes_recipe: pk -> row, NoRecipe when absent
    nextId,      \* next primary key of recipes_recipe
    cart,        \* table recipes_shoppingcart: set of rows [id, user, recipe]
    cartNextId,  \* next primary key of recipes_shoppingcart
    pc,          \* position of each worker inside its handler
    req,         \* the request a worker handles: op, user, recipe id
    inst,        \* the in-memory Recipe instance of a create / update
    item,        \* the in-memory relation row of a cart removal (its pk)
    retried,     \* generate_short_url has discarded a candidate
    response,    \* the response sent by the step just taken: [op, status]
    recipe_ingredients,  \* table recipes_recipeingredient: for every recipe
                         \* pk its rows [ingredient, amount] in primary-key
                         \* order
    recipe_tags,  \* table recipes_recipe_tags: set of rows [recipe, tag]
    shopping_list,  \* table list_shoppinglist: set of rows [user, recipe]
    group_order,  \* the order in which the database returns the groups of
                  \* an aggregate query without ORDER BY
    cart_order,   \* the index through which the database answers a query
                  \* on the cart without ORDER BY, which fixes the order of
                  \* the rows it returns
    data,        \* the body of the request a worker handles; the
                 \* ingredients of a recipe body are the items the for loop
                 \* has yet to store
    favorites,   \* table recipes_favorite: set of rows [id, user, recipe]
    favNextId,   \* next primary key of recipes_favorite
    subscriptions,  \* table users_subscription: for every pair
                    \* << user, author >> the number of its rows
    users,       \* table auth_user of django.contrib.auth.models.User:
                 \* rows [email, username] in primary-key order
    favorites_app,  \* table favorites_favorite of the favorites app: for
                    \* every pair << user, recipe >> the number of its rows
    subscriptions_app,  \* table subscriptions_subscription of the
                        \* subscriptions app: for every pair
                        \* << user, author >> the number of its rows
    foodgram_users,  \* table users_foodgramuser of users.models.FoodgramUser:
                     \* rows [email, username, is_staff, is_superuser] in
                     \* primary-key order
    cascade_order    \* the order in which the deletion of a recipe reaches
                     \* the tables that reference it

vars == << recipes, nextId, cart, cartNextId, pc, req, inst, item,
           retried, response, recipe_ingredients, recipe_tags,
           shopping_list, group_order, cart_order, data, favorites,
           favNextId, subscriptions, users, favorites_app,
           subscriptions_app, foodgram_users, cascade_order >>

ingredient_tables == << recipe_ingredients, recipe_tags >>
list_tables == << shopping_list, group_order, cart_order, cascade_order >>
app_tables == << favorites_app, subscriptions_app, foodgram_users >>
social_tables ==
    << favorites, favNextId, subscriptions, users, app_tables >>

\* Where no deletion of a recipe runs beside requests that write the tables
\* of the list app and of the favorites app, the place of their two
\* statements in the cascade changes no table and no response: such a
\* specification starts with the applications after recipes.
AppsLast == cascade_order = RecipesTables \o << "list" >> \o << "favs" >>

\* no favorite, no subscription and no registered account yet
NoSocialRows ==
    /\ favorites = {}
    /\ favNextId = 1
    /\ subscriptions = [pair \in Users \X Users |-> 0]
    /\ users = << >>
    /\ favorites_app = [pair \in Users \X RecipeIds |-> 0]
    /\ subscriptions_app = [pair \in Users \X Users |-> 0]
    /\ foodgram_users = << >>

Persisted(r) == recipes[r] /= NoRecipe

\* Recipe.objects.filter(short_link=short_url).exists()
short_link_exists(short_url) ==
    \E r \in RecipeIds : Persisted(r) /\ recipes[r].short_link = short_url

\* unique=True on short_link: another row already holds the value
short_link_conflict(pk, short_url) ==
    /\ short_url /= NoToken            \* NULLs never collide
    /\ \E r \in RecipeIds :
         r /= pk /\ Persisted(r) /\ recipes[r].short_link = short_url

\* relation_model.objects.filter(user=user, recipe=recipe)
relation_rows(u, r) == {row \in cart : row.user = u /\ row.recipe = r}

Init ==
    /\ recipes = [r \in RecipeIds |-> NoRecipe]
    /\ nextId = 1
    /\ cart = {}
    /\ cartNextId = 1
    /\ pc = [p \in Procs |-> "idle"]
    /\ req = [p \in Procs |-> NoReq]
    /\ inst = [p \in Procs |-> NoInst]
    /\ item = [p \in Procs |-> 0]
    /\ retried = [p \in Procs |-> FALSE]
    /\ response = NoResponse
    /\ recipe_ingredients = [r \in RecipeIds |-> << >>]
    /\ recipe_tags = {}
    /\ shopping_list = {}
    /\ group_order = [i \in IngredientIds |-> i]
    /\ cart_order = "pk"
    /\ AppsLast
    /\ data = [p \in Procs |-> NoData]
    /\ NoSocialRows

\* a worker sends the response of its request and becomes free again; dt is
\* what the workers hold after the last statement of the request
Finish(p, op, status, dt) ==
    /\ pc' = [pc EXCEPT ![p] = "idle"]
    /\ req' = [req EXCEPT ![p] = NoReq]
    /\ response' = [op |-> op, status |-> status]
    /\ inst' = [inst EXCEPT ![p] = NoInst]
    /\ item' = [item EXCEPT ![p] = 0]
    /\ retried' = [retried EXCEPT ![p] = FALSE]
    /\ data' = [dt EXCEPT ![p] = NoData]

Respond(p, op, status) == Finish(p, op, status, data)

\* a free worker takes a request and moves to the handler's next statement
Accept(p, op, u, r, next) ==
    /\ pc' = [pc EXCEPT ![p] = next]
    /\ req' = [req EXCEPT ![p] = [op |-> op, user |-> u, rid |-> r]]
    /\ response' = NoResponse

\* number of requests of one kind that are still being handled
InFlight(op) == Cardinality({q \in Procs : req[q].op = op})

\* number of creations whose recipe row has not been inserted yet
Unsaved == Cardinality({q \in Procs : req[q].op = "create" /\ inst[q].pk = 0})

SeqToSet(s) == {s[i] : i \in 1..Len(s)}

\* UniqueConstraint (recipe, ingredient): a row already holds the pair
recipe_ingredient_conflict(r, i) ==
    \E k \in 1..Len(recipe_ingredients[r]) :
        recipe_ingredients[r][k].ingredient = i

\* ------------------------------------------------------- recipe creation
\* POST /api/recipes/: perform_create -> RecipeSerializer.create ->
\* Recipe.objects.create(**validated_data): a fresh instance, then save()
\* with the request body d; the serializer is validated first
CreateRecipe(p, u, n, d) ==
    /\ pc[p] = "idle"
    /\ nextId + Unsaved <= MaxRecipes
    /\ Accept(p, "create", u, 0, "validate")
    /\ inst' = [inst EXCEPT ![p] =
                 [pk |-> 0, short_link |-> NoToken, author |-> u, name |-> n]]
    /\ data' = [data EXCEPT ![p] = d]
    /\ UNCHANGED << recipes, nextId, cart, cartNextId, item, retried >>
    /\ UNCHANGED << ingredient_tables, list_tables, social_tables >>

\* validate() without the test for a repeated ingredient
validate_no_repeat_test(d) ==
    /\ d.tags /= << >>
    /\ Len(d.tags) = Cardinality(SeqToSet(d.tags))
    /\ \A i \in 1..Len(d.tags) : d.tags[i] \in TagIds
    /\ d.ingredients /= << >>
    /\ \A i \in 1..Len(d.ingredients) : d.ingredients[i].amount >= 1
    /\ d.cooking_time >= 1

\* RecipeSerializer.validate: TRUE when no ValidationError is raised.  Tags
\* must be given, not repeat and exist; ingredients must be given, not
\* repeat and have amount >= 1; cooking_time must be >= 1.
validate(d) ==
    /\ d.tags /= << >>
    /\ Len(d.tags) = Cardinality(SeqToSet(d.tags))
    /\ \A i \in 1..Len(d.tags) : d.tags[i] \in TagIds
    /\ d.ingredients /= << >>
    /\ \A i \in 1..Len(d.ingredients) : \A j \in 1..Len(d.ingredients) :
         i < j => d.ingredients[i].ingredient /= d.ingredients[j].ingredient
    /\ \A i \in 1..Len(d.ingredients) : d.ingredients[i].amount >= 1
    /\ d.cooking_time >= 1

\* the bounds of the validators of Recipe.cooking_time and
\* RecipeIngredient.amount, as their messages state them
RECIPES_MIN_COOKING_TIME == 1
RECIPES_MAX_COOKING_TIME == 32000
RECIPES_MIN_INGREDIENTS == 1
RECIPES_MAX_INGREDIENTS == 32000

\* the validation of the fields, which is_valid() runs before validate():
\* name is required and not blank, every item names a stored ingredient,
\* amount and cooking_time lie within the bounds of their validators
fields_valid(n, d) ==
    /\ n /= ""
    /\ \A i \in 1..Len(d.ingredients) :
          /\ d.ingredients[i].ingredient \in IngredientIds
          /\ d.ingredients[i].amount >= RECIPES_MIN_INGREDIENTS
          /\ d.ingredients[i].amount <= RECIPES_MAX_INGREDIENTS
    /\ d.cooking_time >= RECIPES_MIN_COOKING_TIME
    /\ d.cooking_time <= RECIPES_MAX_COOKING_TIME

\* serializer.is_valid(raise_exception=True): 400 on a ValidationError of a
\* field or of validate(), else on to RecipeSerializer.create or
\* RecipeSerializer.update
Validate(p) ==
    /\ pc[p] = "validate"
    /\ IF ~(fields_valid(inst[p].name, data[p]) /\ validate(data[p]))
       THEN Respond(p, req[p].op, 400)
       ELSE /\ pc' = [pc EXCEPT ![p] =
                       IF req[p].op = "create" THEN "save" ELSE "ingr_delete"]
            /\ response' = NoResponse
            /\ UNCHANGED << req, inst, item, retried, data >>
    /\ UNCHANGED << recipes, nextId, cart, cartNextId >>
    /\ UNCHANGED << ingredient_tables, list_tables, social_tables >>

\* save() that draws a new short link on every call
Save_always_generates(p) ==
    /\ pc[p] = "save"
    /\ pc' = [pc EXCEPT ![p] = "gen"]
    /\ inst' = [inst EXCEPT ![p].short_link = NoToken]
    /\ response' = NoResponse
    /\ UNCHANGED << recipes, nextId, cart, cartNextId, req, item, retried >>
    /\ UNCHANGED << ingredient_tables, list_tables, social_tables, data >>

\* save() with the test of short_link inverted
Save_inverted(p) ==
    /\ pc[p] = "save"
    /\ pc' = [pc EXCEPT ![p] =
               IF inst[p].short_link /= NoToken THEN "gen" ELSE "write"]
    /\ response' = NoResponse
    /\ UNCHANGED << recipes, nextId, cart, cartNextId, req, inst, item,
                    retried >>
    /\ UNCHANGED << ingredient_tables, list_tables, social_tables, data >>

\* Recipe.save: if not self.short_link: self.short_link = generate_short_url()
Save(p) ==
    /\ pc[p] = "save"
    /\ pc' = [pc EXCEPT ![p] =
               IF inst[p].short_link = NoToken THEN "gen" ELSE "write"]
    /\ response' = NoResponse
    /\ UNCHANGED << recipes, nextId, cart, cartNextId, req, inst, item,
                    retried >>
    /\ UNCHANGED << ingredient_tables, list_tables, social_tables, data >>

\* an iteration that returns its candidate without the existence query
generate_unchecked(p, s) ==
    /\ pc[p] = "gen"
    /\ inst' = [inst EXCEPT ![p].short_link = new_short_url(s)]
    /\ pc' = [pc EXCEPT ![p] = "write"]
    /\ response' = NoResponse
    /\ UNCHANGED << recipes, nextId, cart, cartNextId, req, item, retried >>
    /\ UNCHANGED << ingredient_tables, list_tables, social_tables, data >>

\* an iteration with the existence test inverted: it returns held tokens
generate_inverted(p, s) ==
    /\ pc[p] = "gen"
    /\ LET short_url == new_short_url(s) IN
       IF short_link_exists(short_url)
       THEN /\ inst' = [inst EXCEPT ![p].short_link = short_url]
            /\ pc' = [pc EXCEPT ![p] = "write"]
            /\ UNCHANGED retried
       ELSE /\ retried' = [retried EXCEPT ![p] = TRUE]
            /\ UNCHANGED << inst, pc >>
    /\ response' = NoResponse
    /\ UNCHANGED << recipes, nextId, cart, cartNextId, req, item >>
    /\ UNCHANGED << ingredient_tables, list_tables, social_tables, data >>

\* an iteration that stores the recipe under the token it has found
generate_reserving(p, s) ==
    /\ pc[p] = "gen"
    /\ LET short_url == new_short_url(s) IN
       IF ~short_link_exists(short_url)
       THEN /\ inst' = [inst EXCEPT ![p].short_link = short_url]
            /\ pc' = [pc EXCEPT ![p] = "write"]
            /\ recipes' = [recipes EXCEPT ![nextId] =
                             [short_link |-> short_url,
                              author |-> inst[p].author,
                              name |-> inst[p].name]]
            /\ UNCHANGED retried
       ELSE /\ retried' = [retried EXCEPT ![p] = TRUE]
            /\ UNCHANGED << inst, pc, recipes >>
    /\ response' = NoResponse
    /\ UNCHANGED << nextId, cart, cartNextId, req, item >>
    /\ UNCHANGED << ingredient_tables, list_tables, social_tables, data >>

\* one iteration of the while True loop of generate_short_url, the random
\* source giving outcome s: draw, query, return the candidate or go round
generate_iteration(p, s) ==
    /\ pc[p] = "gen"
    /\ LET short_url == new_short_url(s) IN
       IF ~short_link_exists(short_url)
       THEN /\ inst' = [inst EXCEPT ![p].short_link = short_url]
            /\ pc' = [pc EXCEPT ![p] = "write"]
            /\ UNCHANGED retried
       ELSE /\ retried' = [retried EXCEPT ![p] = TRUE]
            /\ UNCHANGED << inst, pc >>
    /\ response' = NoResponse
    /\ UNCHANGED << recipes, nextId, cart, cartNextId, req, item >>
    /\ UNCHANGED << ingredient_tables, list_tables, social_tables, data >>

generate_short_url(p) == \E s \in 1..MaxDraws : generate_iteration(p, s)

RowOf(i) == [short_link |-> i.short_link, author |-> i.author, name |-> i.name]

\* super().save() on a column without the unique index
SuperSave_no_unique(p) ==
    /\ pc[p] = "write"
    /\ IF inst[p].pk = 0
       THEN /\ recipes' = [recipes EXCEPT ![nextId] = RowOf(inst[p])]
            /\ nextId' = nextId + 1
            /\ inst' = [inst EXCEPT ![p].pk = nextId]
            /\ pc' = [pc EXCEPT ![p] = "tags"]
            /\ response' = NoResponse
            /\ UNCHANGED << req, item, retried, data >>
       ELSE IF Persisted(inst[p].pk)
       THEN /\ recipes' = [recipes EXCEPT ![inst[p].pk] = RowOf(inst[p])]
            /\ Respond(p, req[p].op, 200)
            /\ UNCHANGED nextId
       ELSE /\ pc' = [pc EXCEPT ![p] = "insert"]
            /\ response' = NoResponse
            /\ UNCHANGED << recipes, nextId, req, inst, item, retried, data >>
    /\ UNCHANGED << cart, cartNextId, ingredient_tables, list_tables,
                    social_tables >>

\* super().save(), first statement: INSERT for a new instance, which
\* create() follows with the tags and the ingredients of the row; for an
\* instance with a pk an UPDATE, the last statement of update() when it
\* matches the row.  The unique index on short_link rejects the statement
\* with IntegrityError, which no caller catches: the request ends as a
\* server error.  When the UPDATE matches no row an INSERT follows.
SuperSave(p) ==
    /\ pc[p] = "write"
    /\ IF inst[p].pk = 0
       THEN IF short_link_conflict(nextId, inst[p].short_link)
            THEN /\ Respond(p, req[p].op, 500)
                 /\ UNCHANGED << recipes, nextId >>
            ELSE /\ recipes' = [recipes EXCEPT ![nextId] = RowOf(inst[p])]
                 /\ nextId' = nextId + 1
                 /\ inst' = [inst EXCEPT ![p].pk = nextId]
                 /\ pc' = [pc EXCEPT ![p] = "tags"]
                 /\ response' = NoResponse
                 /\ UNCHANGED << req, item, retried, data >>
       ELSE IF Persisted(inst[p].pk)
       THEN IF short_link_conflict(inst[p].pk, inst[p].short_link)
            THEN /\ Respond(p, req[p].op, 500)
                 /\ UNCHANGED << recipes, nextId >>
            ELSE /\ recipes' = [recipes EXCEPT ![inst[p].pk] = RowOf(inst[p])]
                 /\ Respond(p, req[p].op, 200)
                 /\ UNCHANGED nextId
       ELSE /\ pc' = [pc EXCEPT ![p] = "insert"]
            /\ response' = NoResponse
            /\ UNCHANGED << recipes, nextId, req, inst, item, retried, data >>
    /\ UNCHANGED << cart, cartNextId, ingredient_tables, list_tables,
                    social_tables >>

\* super().save(), second statement of an instance with a pk whose UPDATE
\* matched no row: INSERT under that pk.  The primary key rejects it when
\* the row has been stored meanwhile, the unique index when the short link
\* is held: IntegrityError, a server error.
SuperSaveInsert(p) ==
    /\ pc[p] = "insert"
    /\ IF \/ Persisted(inst[p].pk)
          \/ short_link_conflict(inst[p].pk, inst[p].short_link)
       THEN /\ Respond(p, req[p].op, 500)
            /\ UNCHANGED recipes
       ELSE /\ recipes' = [recipes EXCEPT ![inst[p].pk] = RowOf(inst[p])]
            /\ Respond(p, req[p].op, 200)
    /\ UNCHANGED << nextId, cart, cartNextId, ingredient_tables, list_tables,
                    social_tables >>

\* ------------------------------------------------ tags and ingredient rows
\* Rows that a transaction has deleted are locked until it commits or rolls
\* back, and the other requests still see them: a statement of another
\* request that deletes one of them, or inserts a row with the key of one of
\* them, waits.  Two transactions have more than one statement: the deletion
\* of a recipe, which holds the rows its cascade has deleted, and
\* tags.set(), which holds the rows of remove() until add() has run.  TRUE
\* when some of the rows, of table f and recipe r, are locked against
\* worker p.
row_locks(p, r, f, rows) ==
    \E q \in Procs \ {p} :
       \/ /\ pc[q] \in {"destroy_cascade", "destroy_wait", "destroy_row"}
          /\ req[q].rid = r
          /\ data[q].deleted[f] \cap rows /= {}
       \/ /\ pc[q] = "tags_add"
          /\ inst[q].pk = r
          /\ f = "tags"
          /\ data[q].removed \cap rows /= {}

\* A DELETE of the cascade that waits for locked rows has chosen its rows
\* when it began: it skips those that a committed statement has removed
\* meanwhile, and a row stored after it began is not among them.  dt after
\* the rows gone of table f and recipe r have been removed for good.
Settle(dt, r, f, gone) ==
    [q \in Procs |->
        IF /\ pc[q] = "destroy_wait"
           /\ req[q].rid = r
           /\ cascade_order[dt[q].step] = f
        THEN [dt[q] EXCEPT !.snapshot = @ \ gone]
        ELSE dt[q]]

\* recipe.tags.set(tags_data), first statement inside transaction.atomic:
\* old_ids = set(values_list('tag_id')), the tags the recipe has now.
\* remove(*old_ids) is given the old tags that are not in the list and
\* add(*new_objs) the listed tags that are not old; each returns without a
\* statement when it is given nothing.
TagsSet(p) ==
    /\ pc[p] = "tags"
    /\ LET old_ids == {row.tag : row \in
                         {x \in recipe_tags : x.recipe = inst[p].pk}}
           new_ids == SeqToSet(data[p].tags)
       IN  /\ data' = [data EXCEPT ![p] =
                         [tags |-> @.tags, ingredients |-> @.ingredients,
                          cooking_time |-> @.cooking_time,
                          old_ids |-> old_ids, removed |-> {}]]
           /\ pc' = [pc EXCEPT ![p] =
                      IF old_ids \ new_ids /= {} THEN "tags_remove"
                      ELSE IF new_ids \ old_ids /= {} THEN "tags_add"
                      ELSE IF req[p].op = "create" THEN "ingr"
                      ELSE "save"]
    /\ response' = NoResponse
    /\ UNCHANGED << req, inst, item, retried >>
    /\ UNCHANGED << recipes, nextId, cart, cartNextId >>
    /\ UNCHANGED << ingredient_tables, list_tables, social_tables >>

\* recipe.tags.set(tags_data), remove(*old_ids): one DELETE of the rows of
\* the old tags that are not listed.  The rows it finds are deleted inside
\* the transaction: the other requests see them, locked, until add() has
\* run and the transaction commits.
TagsRemove(p) ==
    /\ pc[p] = "tags_remove"
    /\ LET rid == inst[p].pk
           rows == {t \in data[p].old_ids \ SeqToSet(data[p].tags) :
                       [recipe |-> rid, tag |-> t] \in recipe_tags}
       IN  /\ ~row_locks(p, rid, "tags", rows)
           /\ data' = [data EXCEPT ![p].removed = rows]
    /\ pc' = [pc EXCEPT ![p] = "tags_add"]
    /\ response' = NoResponse
    /\ UNCHANGED << req, inst, item, retried >>
    /\ UNCHANGED << recipes, nextId, cart, cartNextId >>
    /\ UNCHANGED << ingredient_tables, list_tables, social_tables >>

\* recipe.tags.set(tags_data), add(*new_objs) and the end of the
\* transaction: one INSERT of the listed tags that were not old, a row that
\* is stored already being left alone (ignore_conflicts), then COMMIT, which
\* makes the rows of remove() disappear.  The foreign key of a row that was
\* inserted fails at COMMIT when the recipe is gone: IntegrityError, the
\* transaction is rolled back and the rows of remove() stay.
TagsAdd(p) ==
    /\ pc[p] = "tags_add"
    /\ LET rid == inst[p].pk
           added == SeqToSet(data[p].tags) \ data[p].old_ids
           inserted == {t \in added :
                          [recipe |-> rid, tag |-> t] \notin recipe_tags}
       IN  /\ ~row_locks(p, rid, "tags", added)
           /\ IF inserted /= {} /\ ~Persisted(rid)
              THEN /\ Respond(p, req[p].op, 500)
                   /\ UNCHANGED recipe_tags
              ELSE /\ recipe_tags' =
                        {row \in recipe_tags :
                            ~(row.recipe = rid
                                /\ row.tag \in data[p].removed)}
                            \cup {[recipe |-> rid, tag |-> t] :
                                     t \in inserted}
                   /\ data' = Settle(data, rid, "tags", data[p].removed)
                   /\ pc' = [pc EXCEPT ![p] =
                              IF req[p].op = "create" THEN "ingr" ELSE "save"]
                   /\ response' = NoResponse
                   /\ UNCHANGED << req, inst, item, retried >>
    /\ UNCHANGED << recipes, nextId, cart, cartNextId, recipe_ingredients,
                    list_tables, social_tables >>

\* instance.recipe_ingredients.all().delete()
IngredientsDelete(p) ==
    /\ pc[p] = "ingr_delete"
    /\ ~row_locks(p, inst[p].pk, "ingredients",
                  SeqToSet(recipe_ingredients[inst[p].pk]))
    /\ recipe_ingredients' =
         [recipe_ingredients EXCEPT ![inst[p].pk] = << >>]
    /\ data' = Settle(data, inst[p].pk, "ingredients",
                      SeqToSet(recipe_ingredients[inst[p].pk]))
    /\ pc' = [pc EXCEPT ![p] = "ingr"]
    /\ response' = NoResponse
    /\ UNCHANGED << recipes, nextId, cart, cartNextId, req, inst, item,
                    retried, recipe_tags, list_tables, social_tables >>

\* the INSERT on a table without the UniqueConstraint (recipe, ingredient)
IngredientCreate_no_unique(p) ==
    /\ pc[p] = "ingr"
    /\ LET rid == inst[p].pk
           it == Head(data[p].ingredients)
       IN  IF ~Persisted(rid)
           THEN /\ Respond(p, req[p].op, 500)
                /\ UNCHANGED recipe_ingredients
           ELSE /\ recipe_ingredients' =
                       [recipe_ingredients EXCEPT ![rid] =
                           Append(@, [ingredient |-> it.ingredient,
                                      amount |-> it.amount])]
                /\ IF Len(data[p].ingredients) > 1
                   THEN /\ data' = [data EXCEPT ![p].ingredients = Tail(@)]
                        /\ response' = NoResponse
                        /\ UNCHANGED << pc, req, inst, item, retried >>
                   ELSE IF req[p].op = "create"
                   THEN Respond(p, req[p].op, 201)
                   ELSE /\ data' = [data EXCEPT ![p].ingredients = Tail(@)]
                        /\ pc' = [pc EXCEPT ![p] = "tags"]
                        /\ response' = NoResponse
                        /\ UNCHANGED << req, inst, item, retried >>
    /\ UNCHANGED << recipes, nextId, cart, cartNextId, recipe_tags,
                    list_tables, social_tables >>

\* one round of the loop "for ingredient in ingredients_data:
\* RecipeIngredient.objects.create(recipe=..., ingredient=..., amount=...)".
\* The INSERT is refused by the foreign key when the recipe is gone and by
\* the UniqueConstraint when the pair is present; nothing catches the
\* IntegrityError.  After the last item create() returns (201) and update()
\* goes on to the tags.
IngredientCreate(p) ==
    /\ pc[p] = "ingr"
    /\ LET rid == inst[p].pk
           it == Head(data[p].ingredients)
       IN  IF \/ ~Persisted(rid)
              \/ recipe_ingredient_conflict(rid, it.ingredient)
           THEN /\ Respond(p, req[p].op, 500)
                /\ UNCHANGED recipe_ingredients
           ELSE /\ recipe_ingredients' =
                       [recipe_ingredients EXCEPT ![rid] =
                           Append(@, [ingredient |-> it.ingredient,
                                      amount |-> it.amount])]
                /\ IF Len(data[p].ingredients) > 1
                   THEN /\ data' = [data EXCEPT ![p].ingredients = Tail(@)]
                        /\ response' = NoResponse
                        /\ UNCHANGED << pc, req, inst, item, retried >>
                   ELSE IF req[p].op = "create"
                   THEN Respond(p, req[p].op, 201)
                   ELSE /\ data' = [data EXCEPT ![p].ingredients = Tail(@)]
                        /\ pc' = [pc EXCEPT ![p] = "tags"]
                        /\ response' = NoResponse
                        /\ UNCHANGED << req, inst, item, retried >>
    /\ UNCHANGED << recipes, nextId, cart, cartNextId, recipe_tags,
                    list_tables, social_tables >>

\* ---------------------------------------------------------- recipe update
\* PUT/PATCH /api/recipes/<pk>/: get_object, IsAuthorOrReadOnly, then the
\* serializer is validated and RecipeSerializer.update runs: setattr for the
\* validated fields, the ingredient rows deleted and created again,
\* tags.set, instance.save()
UpdateRecipe(p, u, r, n, d) ==
    /\ pc[p] = "idle"
    /\ IF ~Persisted(r)
       THEN Respond(p, "update", 404)
       ELSE IF recipes[r].author /= u
       THEN Respond(p, "update", 403)
       ELSE /\ Accept(p, "update", u, r, "validate")
            /\ inst' = [inst EXCEPT ![p] =
                         [pk |-> r, short_link |-> recipes[r].short_link,
                          author |-> recipes[r].author, name |-> n]]
            /\ data' = [data EXCEPT ![p] = d]
            /\ UNCHANGED << item, retried >>
    /\ UNCHANGED << recipes, nextId, cart, cartNextId >>
    /\ UNCHANGED << ingredient_tables, list_tables, social_tables >>

\* the rows that reference recipe r through a foreign key with
\* on_delete=CASCADE: the primary keys of its cart and favorite rows, its
\* RecipeIngredient rows, its tags, and the users of its rows in the tables
\* of the list app and of the favorites app
recipe_dependents(r) ==
    [cart |-> {row.id : row \in {x \in cart : x.recipe = r}},
     favorites |-> {row.id : row \in {x \in favorites : x.recipe = r}},
     ingredients |-> SeqToSet(recipe_ingredients[r]),
     tags |-> {row.tag : row \in {x \in recipe_tags : x.recipe = r}},
     list |-> {row.user : row \in {x \in shopping_list : x.recipe = r}},
     favs |-> {u \in Users : favorites_app[<< u, r >>] > 0}]

\* what a deletion holds when it begins: no row deleted yet, the first
\* table of the cascade next, no statement waiting
NoCascade ==
    [deleted |-> [cart |-> {}, favorites |-> {}, ingredients |-> {},
                  tags |-> {}, list |-> {}, favs |-> {}],
     step |-> 1, snapshot |-> {}]

\* TRUE when a row references recipe r that is not among the rows deleted
cascade_missed(r, deleted) ==
    LET now == recipe_dependents(r) IN
    \E f \in DOMAIN now : ~(now[f] \subseteq deleted[f])

\* DELETE /api/recipes/<pk>/: get_object() (404) and IsAuthorOrReadOnly (403)
DestroyRecipe(p, u, r) ==
    /\ pc[p] = "idle"
    /\ IF ~Persisted(r)
       THEN Respond(p, "destroy", 404)
       ELSE IF recipes[r].author /= u
       THEN Respond(p, "destroy", 403)
       ELSE /\ Accept(p, "destroy", u, r, "destroy_cascade")
            /\ data' = [data EXCEPT ![p] = NoCascade]
            /\ UNCHANGED << inst, item, retried >>
    /\ UNCHANGED << recipes, nextId, cart, cartNextId >>
    /\ UNCHANGED << ingredient_tables, list_tables, social_tables >>

\* instance.delete(), the cascade: inside one transaction the collector
\* deletes the rows that reference the recipe (on_delete=CASCADE), one
\* DELETE ... WHERE recipe_id IN (pk) per table, in the order of the tables.
\* This is one of these statements.  It deletes the rows it finds; until the
\* transaction commits the other requests still see them, locked.  When a
\* row it finds is locked by another transaction the statement waits, and
\* goes on when the lock is gone with the rows it had found that are still
\* stored.
DestroyCascade(p) ==
    /\ pc[p] \in {"destroy_cascade", "destroy_wait"}
    /\ LET r == req[p].rid
           f == cascade_order[data[p].step]
           found == recipe_dependents(r)[f]
           rows == IF pc[p] = "destroy_wait"
                   THEN data[p].snapshot \cap found
                   ELSE found
       IN  IF row_locks(p, r, f, rows)
           THEN /\ pc[p] = "destroy_cascade"
                /\ data' = [data EXCEPT ![p].snapshot = rows]
                /\ pc' = [pc EXCEPT ![p] = "destroy_wait"]
           ELSE /\ data' = [data EXCEPT ![p] =
                              [deleted |-> [@.deleted EXCEPT ![f] = rows],
                               step |-> @.step + 1, snapshot |-> {}]]
                /\ pc' = [pc EXCEPT ![p] =
                           IF data[p].step = Len(cascade_order)
                           THEN "destroy_row"
                           ELSE "destroy_cascade"]
    /\ response' = NoResponse
    /\ UNCHANGED << req, inst, item, retried >>
    /\ UNCHANGED << recipes, nextId, cart, cartNextId >>
    /\ UNCHANGED << ingredient_tables, list_tables, social_tables >>

\* a deletion whose foreign keys do not cascade: only the recipe row goes
DestroyDelete_no_cascade(p) ==
    /\ pc[p] = "destroy_row"
    /\ recipes' = [recipes EXCEPT ![req[p].rid] = NoRecipe]
    /\ Respond(p, req[p].op, 204)
    /\ UNCHANGED << nextId, cart, cartNextId >>
    /\ UNCHANGED << ingredient_tables, list_tables, social_tables >>

\* the statements that wait for rows of recipe r find all of them gone
SettleAll(dt, r) ==
    [q \in Procs |->
        IF pc[q] = "destroy_wait" /\ req[q].rid = r
        THEN [dt[q] EXCEPT !.snapshot = {}]
        ELSE dt[q]]

\* instance.delete(), after the cascade: DELETE of the recipe row and
\* COMMIT.  A row that references the recipe and that the cascade has not
\* deleted makes the foreign key fail: IntegrityError, the transaction is
\* rolled back and the request ends as a server error.  A recipe row that
\* is gone already matches no row and raises nothing.
DestroyDelete(p) ==
    /\ pc[p] = "destroy_row"
    /\ LET r == req[p].rid IN
       IF cascade_missed(r, data[p].deleted)
       THEN /\ Respond(p, req[p].op, 500)
            /\ UNCHANGED << recipes, cart, ingredient_tables, shopping_list,
                            favorites, favorites_app >>
       ELSE /\ recipes' = [recipes EXCEPT ![r] = NoRecipe]
            /\ cart' = {row \in cart : row.recipe /= r}
            /\ recipe_ingredients' = [recipe_ingredients EXCEPT ![r] = << >>]
            /\ recipe_tags' = {row \in recipe_tags : row.recipe /= r}
            /\ shopping_list' = {row \in shopping_list : row.recipe /= r}
            /\ favorites' = {row \in favorites : row.recipe /= r}
            /\ favorites_app' =
                 [pair \in Users \X RecipeIds |->
                    IF pair[2] = r THEN 0 ELSE favorites_app[pair]]
            /\ Finish(p, req[p].op, 204, SettleAll(data, r))
    /\ UNCHANGED << nextId, cartNextId, group_order, cart_order,
                    cascade_order, favNextId, subscriptions, users,
                    subscriptions_app, foodgram_users >>

\* GET /api/recipes/<pk>/: a safe method, allowed to every user
RetrieveRecipe(p, u, r) ==
    /\ pc[p] = "idle"
    /\ response' = [op |-> "retrieve", rid |-> r, user |-> u,
                    status |-> IF Persisted(r) THEN 200 ELSE 404]
    /\ UNCHANGED << recipes, nextId, cart, cartNextId, pc, req, inst, item,
                    retried, data >>
    /\ UNCHANGED << ingredient_tables, list_tables, social_tables >>

\* ------------------------------------- recipe detail view of recipes/views.py
\* RecipeDetailView of recipes/views.py has permission_classes
\* [IsAuthenticatedOrReadOnly] and tests the author in patch() and delete().
\* PUT is served by the inherited update(): get_object, the serializer is
\* validated, RecipeSerializer.update
recipes_RecipeDetailView_put(p, u, r, n, d) ==
    /\ pc[p] = "idle"
    /\ IF ~Persisted(r)
       THEN Respond(p, "put", 404)
       ELSE /\ Accept(p, "put", u, r, "validate")
            /\ inst' = [inst EXCEPT ![p] =
                         [pk |-> r, short_link |-> recipes[r].short_link,
                          author |-> recipes[r].author, name |-> n]]
            /\ data' = [data EXCEPT ![p] = d]
            /\ UNCHANGED << item, retried >>
    /\ UNCHANGED << recipes, nextId, cart, cartNextId >>
    /\ UNCHANGED << ingredient_tables, list_tables, social_tables >>

\* patch(): get_object() (404), PermissionDenied (403) unless
\* recipe.author == request.user, then partial_update
recipes_RecipeDetailView_patch(p, u, r, n, d) ==
    /\ pc[p] = "idle"
    /\ IF ~Persisted(r)
       THEN Respond(p, "patch", 404)
       ELSE IF recipes[r].author /= u
       THEN Respond(p, "patch", 403)
       ELSE /\ Accept(p, "patch", u, r, "patch_get")
            /\ inst' = [inst EXCEPT ![p] =
                         [pk |-> r, short_link |-> NoToken,
                          author |-> "", name |-> n]]
            /\ data' = [data EXCEPT ![p] = d]
            /\ UNCHANGED << item, retried >>
    /\ UNCHANGED << recipes, nextId, cart, cartNextId >>
    /\ UNCHANGED << ingredient_tables, list_tables, social_tables >>

\* partial_update: the get_object() of UpdateModelMixin.update loads the
\* recipe a second time (404 when it is gone by now) and hands the instance
\* to the serializer
recipes_RecipeDetailView_partial_update(p) ==
    /\ pc[p] = "patch_get"
    /\ LET r == req[p].rid IN
       IF ~Persisted(r)
       THEN Respond(p, req[p].op, 404)
       ELSE /\ inst' = [inst EXCEPT ![p] =
                         [pk |-> r, short_link |-> recipes[r].short_link,
                          author |-> recipes[r].author,
                          name |-> inst[p].name]]
            /\ pc' = [pc EXCEPT ![p] = "validate"]
            /\ response' = NoResponse
            /\ UNCHANGED << req, item, retried, data >>
    /\ UNCHANGED << recipes, nextId, cart, cartNextId >>
    /\ UNCHANGED << ingredient_tables, list_tables, social_tables >>

\* delete(): get_object() (404), PermissionDenied (403) unless
\* recipe.author == request.user, then recipe.delete() with its cascade
recipes_RecipeDetailView_delete(p, u, r) ==
    /\ pc[p] = "idle"
    /\ IF ~Persisted(r)
       THEN Respond(p, "delete", 404)
       ELSE IF recipes[r].author /= u
       THEN Respond(p, "delete", 403)
       ELSE /\ Accept(p, "delete", u, r, "destroy_cascade")
            /\ data' = [data EXCEPT ![p] = NoCascade]
            /\ UNCHANGED << inst, item, retried >>
    /\ UNCHANGED << recipes, nextId, cart, cartNextId >>
    /\ UNCHANGED << ingredient_tables, list_tables, social_tables >>

\* ---------------------------------------------------------- shopping cart
\* POST /api/recipes/<id>/shopping_cart/: get_recipe()
RelationPost(p, u, r) ==
    /\ pc[p] = "idle"
    /\ cartNextId + InFlight("cart_add") <= MaxCartRows
    /\ IF ~Persisted(r)
       THEN Respond(p, "cart_add", 404)
       ELSE /\ Accept(p, "cart_add", u, r, "rel_exists")
            /\ UNCHANGED << inst, item, retried, data >>
    /\ UNCHANGED << recipes, nextId, cart, cartNextId >>
    /\ UNCHANGED << ingredient_tables, list_tables, social_tables >>

\* a view that goes on to the INSERT without the existence test
RelationExists_skipped(p) ==
    /\ pc[p] = "rel_exists"
    /\ pc' = [pc EXCEPT ![p] = "rel_create"]
    /\ response' = NoResponse
    /\ UNCHANGED << recipes, nextId, cart, cartNextId, req, inst, item,
                    retried, data >>
    /\ UNCHANGED << ingredient_tables, list_tables, social_tables >>

\* if relation_model.objects.filter(user=..., recipe=...).exists(): 400
RelationExists(p) ==
    /\ pc[p] = "rel_exists"
    /\ IF relation_rows(req[p].user, req[p].rid) /= {}
       THEN Respond(p, req[p].op, 400)
       ELSE /\ pc' = [pc EXCEPT ![p] = "rel_create"]
            /\ response' = NoResponse
            /\ UNCHANGED << req, inst, item, retried, data >>
    /\ UNCHANGED << recipes, nextId, cart, cartNextId >>
    /\ UNCHANGED << ingredient_tables, list_tables, social_tables >>

\* the INSERT on a table without the UniqueConstraint (user, recipe)
RelationCreate_no_unique(p) ==
    /\ pc[p] = "rel_create"
    /\ IF ~Persisted(req[p].rid)
       THEN /\ Respond(p, req[p].op, 500)
            /\ UNCHANGED << cart, cartNextId >>
       ELSE /\ cart' = cart \cup {[id |-> cartNextId, user |-> req[p].user,
                                   recipe |-> req[p].rid]}
            /\ cartNextId' = cartNextId + 1
            /\ Respond(p, req[p].op, 201)
    /\ UNCHANGED << recipes, nextId >>
    /\ UNCHANGED << ingredient_tables, list_tables, social_tables >>

\* relation_model.objects.create(user=..., recipe=...): the INSERT is rejected
\* by the foreign key when the recipe is gone and by the UniqueConstraint
\* (user, recipe) when the pair is present; the view catches neither.
RelationCreate(p) ==
    /\ pc[p] = "rel_create"
    /\ IF \/ ~Persisted(req[p].rid)
          \/ relation_rows(req[p].user, req[p].rid) /= {}
       THEN /\ Respond(p, req[p].op, 500)
            /\ UNCHANGED << cart, cartNextId >>
       ELSE /\ cart' = cart \cup {[id |-> cartNextId, user |-> req[p].user,
                                   recipe |-> req[p].rid]}
            /\ cartNextId' = cartNextId + 1
            /\ Respond(p, req[p].op, 201)
    /\ UNCHANGED << recipes, nextId >>
    /\ UNCHANGED << ingredient_tables, list_tables, social_tables >>

\* DELETE /api/recipes/<id>/shopping_cart/: get_recipe()
RelationDelete(p, u, r) ==
    /\ pc[p] = "idle"
    /\ IF ~Persisted(r)
       THEN Respond(p, "cart_remove", 404)
       ELSE /\ Accept(p, "cart_remove", u, r, "rel_first")
            /\ UNCHANGED << inst, item, retried, data >>
    /\ UNCHANGED << recipes, nextId, cart, cartNextId >>
    /\ UNCHANGED << ingredient_tables, list_tables, social_tables >>

\* relation_item = relation_model.objects.filter(...).first(); 400 when None
RelationFirst(p) ==
    /\ pc[p] = "rel_first"
    /\ LET rows == relation_rows(req[p].user, req[p].rid) IN
       IF rows = {}
       THEN Respond(p, req[p].op, 400)
       ELSE /\ item' = [item EXCEPT ![p] =
                          CHOOSE i \in {row.id : row \in rows} :
                              \A row \in rows : i <= row.id]
            /\ pc' = [pc EXCEPT ![p] = "rel_delete"]
            /\ response' = NoResponse
            /\ UNCHANGED << req, inst, retried, data >>
    /\ UNCHANGED << recipes, nextId, cart, cartNextId >>
    /\ UNCHANGED << ingredient_tables, list_tables, social_tables >>

\* relation_item.delete(): DELETE ... WHERE id = pk
RelationItemDelete(p) ==
    /\ pc[p] = "rel_delete"
    /\ ~row_locks(p, req[p].rid, "cart", {item[p]})
    /\ cart' = {row \in cart : row.id /= item[p]}
    /\ Respond(p, req[p].op, 204)
    /\ UNCHANGED << recipes, nextId, cartNextId >>
    /\ UNCHANGED << ingredient_tables, list_tables, social_tables >>

\* --------------------------------------------------------------- favorites
\* FavoriteView is BaseRecipeRelationView with relation_model = Favorite (a
\* class of its own with the same statements in recipes/views.py).
\* Favorite.objects.filter(user=user, recipe=recipe)
favorite_rows(u, r) == {row \in favorites : row.user = u /\ row.recipe = r}

\* number of requests that may still insert a favorite row
FavoriteAdds ==
    Cardinality({q \in Procs : req[q].op = "favorite_add"})

\* POST /api/recipes/<id>/favorite/: get_recipe()
FavoritePost(p, u, r) ==
    /\ pc[p] = "idle"
    /\ favNextId + FavoriteAdds <= MaxFavoriteRows
    /\ IF ~Persisted(r)
       THEN Respond(p, "favorite_add", 404)
       ELSE /\ Accept(p, "favorite_add", u, r, "fav_exists")
            /\ UNCHANGED << inst, item, retried, data >>
    /\ UNCHANGED << recipes, nextId, cart, cartNextId >>
    /\ UNCHANGED << ingredient_tables, list_tables, social_tables >>

\* if Favorite.objects.filter(user=..., recipe=...).exists(): 400
FavoriteExists(p) ==
    /\ pc[p] = "fav_exists"
    /\ IF favorite_rows(req[p].user, req[p].rid) /= {}
       THEN Respond(p, req[p].op, 400)
       ELSE /\ pc' = [pc EXCEPT ![p] = "fav_create"]
            /\ response' = NoResponse
            /\ UNCHANGED << req, inst, item, retried, data >>
    /\ UNCHANGED << recipes, nextId, cart, cartNextId >>
    /\ UNCHANGED << ingredient_tables, list_tables, social_tables >>

\* the INSERT on a table without the UniqueConstraint (user, recipe)
FavoriteCreate_no_unique(p) ==
    /\ pc[p] = "fav_create"
    /\ IF ~Persisted(req[p].rid)
       THEN /\ Respond(p, req[p].op, 500)
            /\ UNCHANGED << favorites, favNextId >>
       ELSE /\ favorites' = favorites \cup
                    {[id |-> favNextId, user |-> req[p].user,
                      recipe |-> req[p].rid]}
            /\ favNextId' = favNextId + 1
            /\ Respond(p, req[p].op, 201)
    /\ UNCHANGED << recipes, nextId, cart, cartNextId, subscriptions, users >>
    /\ UNCHANGED << ingredient_tables, list_tables, app_tables >>

\* Favorite.objects.create(user=..., recipe=...): the INSERT is rejected by
\* the foreign key when the recipe is gone and by the UniqueConstraint
\* (user, recipe) when the pair is present; no caller catches either.
FavoriteCreate(p) ==
    /\ pc[p] = "fav_create"
    /\ IF \/ ~Persisted(req[p].rid)
          \/ favorite_rows(req[p].user, req[p].rid) /= {}
       THEN /\ Respond(p, req[p].op, 500)
            /\ UNCHANGED << favorites, favNextId >>
       ELSE /\ favorites' = favorites \cup
                    {[id |-> favNextId, user |-> req[p].user,
                      recipe |-> req[p].rid]}
            /\ favNextId' = favNextId + 1
            /\ Respond(p, req[p].op, 201)
    /\ UNCHANGED << recipes, nextId, cart, cartNextId, subscriptions, users >>
    /\ UNCHANGED << ingredient_tables, list_tables, app_tables >>

\* DELETE /api/recipes/<id>/favorite/: get_recipe()
FavoriteDelete(p, u, r) ==
    /\ pc[p] = "idle"
    /\ IF ~Persisted(r)
       THEN Respond(p, "favorite_remove", 404)
       ELSE /\ Accept(p, "favorite_remove", u, r, "fav_first")
            /\ UNCHANGED << inst, item, retried, data >>
    /\ UNCHANGED << recipes, nextId, cart, cartNextId >>
    /\ UNCHANGED << ingredient_tables, list_tables, social_tables >>

\* relation_item = Favorite.objects.filter(...).first(); 400 when None
FavoriteFirst(p) ==
    /\ pc[p] = "fav_first"
    /\ LET rows == favorite_rows(req[p].user, req[p].rid) IN
       IF rows = {}
       THEN Respond(p, req[p].op, 400)
       ELSE /\ item' = [item EXCEPT ![p] =
                          CHOOSE i \in {row.id : row \in rows} :
                              \A row \in rows : i <= row.id]
            /\ pc' = [pc EXCEPT ![p] = "fav_delete"]
            /\ response' = NoResponse
            /\ UNCHANGED << req, inst, retried, data >>
    /\ UNCHANGED << recipes, nextId, cart, cartNextId >>
    /\ UNCHANGED << ingredient_tables, list_tables, social_tables >>

\* a removal that deletes every favorite of the user
FavoriteItemDelete_all(p) ==
    /\ pc[p] = "fav_delete"
    /\ favorites' = {row \in favorites : row.user /= req[p].user}
    /\ Respond(p, req[p].op, 204)
    /\ UNCHANGED << recipes, nextId, cart, cartNextId, favNextId,
                    subscriptions, users >>
    /\ UNCHANGED << ingredient_tables, list_tables, app_tables >>

\* relation_item.delete(): DELETE ... WHERE id = pk
FavoriteItemDelete(p) ==
    /\ pc[p] = "fav_delete"
    /\ ~row_locks(p, req[p].rid, "favorites", {item[p]})
    /\ favorites' = {row \in favorites : row.id /= item[p]}
    /\ Respond(p, req[p].op, 204)
    /\ UNCHANGED << recipes, nextId, cart, cartNextId, favNextId,
                    subscriptions, users >>
    /\ UNCHANGED << ingredient_tables, list_tables, app_tables >>

\* ------------------------------------------------- favorites app
\* Favorite.objects.filter(user=user, recipe=recipe).exists() on the
\* Favorite model of the favorites app
favorites_Favorite_exists(u, r) == favorites_app[<< u, r >>] > 0

\* FavoriteViewSet.create of the favorites app: is_valid() looks the recipe
\* up (PrimaryKeyRelatedField, 400 when it does not exist) and then runs
\* FavoriteSerializer.validate
favorites_FavoriteViewSet_create(p, u, r) ==
    /\ pc[p] = "idle"
    /\ IF ~Persisted(r)
       THEN Respond(p, "favorites_create", 400)
       ELSE /\ Accept(p, "favorites_create", u, r, "favs_validate")
            /\ UNCHANGED << inst, item, retried, data >>
    /\ UNCHANGED << recipes, nextId, cart, cartNextId >>
    /\ UNCHANGED << ingredient_tables, list_tables, social_tables >>

\* FavoriteSerializer.validate: ValidationError (400) when the pair is stored
favorites_FavoriteSerializer_validate(p) ==
    /\ pc[p] = "favs_validate"
    /\ IF favorites_Favorite_exists(req[p].user, req[p].rid)
       THEN Respond(p, req[p].op, 400)
       ELSE /\ pc' = [pc EXCEPT ![p] = "favs_create"]
            /\ response' = NoResponse
            /\ UNCHANGED << req, inst, item, retried, data >>
    /\ UNCHANGED << recipes, nextId, cart, cartNextId >>
    /\ UNCHANGED << ingredient_tables, list_tables, social_tables >>

\* FavoriteSerializer.create: Favorite.objects.create(user=user,
\* recipe=recipe); the INSERT is rejected by the foreign key when the recipe
\* is gone and by unique_together when the pair is present, and nothing
\* catches the IntegrityError
favorites_FavoriteSerializer_create(p) ==
    /\ pc[p] = "favs_create"
    /\ IF \/ ~Persisted(req[p].rid)
          \/ favorites_Favorite_exists(req[p].user, req[p].rid)
       THEN /\ Respond(p, req[p].op, 500)
            /\ UNCHANGED favorites_app
       ELSE /\ favorites_app' =
                 [favorites_app EXCEPT ![<< req[p].user, req[p].rid >>] = @ + 1]
            /\ Respond(p, req[p].op, 201)
    /\ UNCHANGED << recipes, nextId, cart, cartNextId, favorites, favNextId,
                    subscriptions, users, subscriptions_app,
                    foodgram_users >>
    /\ UNCHANGED << ingredient_tables, list_tables >>

\* FavoriteViewSet.destroy: the recipe id comes with the request data and is
\* not looked up; 400 when favorite.exists() is false
favorites_FavoriteViewSet_destroy(p, u, r) ==
    /\ pc[p] = "idle"
    /\ IF ~favorites_Favorite_exists(u, r)
       THEN Respond(p, "favorites_destroy", 400)
       ELSE /\ Accept(p, "favorites_destroy", u, r, "favs_delete")
            /\ UNCHANGED << inst, item, retried, data >>
    /\ UNCHANGED << recipes, nextId, cart, cartNextId >>
    /\ UNCHANGED << ingredient_tables, list_tables, social_tables >>

\* favorite.delete(): the rows of the pair that are stored now are deleted
favorites_Favorite_delete(p) ==
    /\ pc[p] = "favs_delete"
    /\ ~row_locks(p, req[p].rid, "favs", {req[p].user})
    /\ favorites_app' =
         [favorites_app EXCEPT ![<< req[p].user, req[p].rid >>] = 0]
    /\ Finish(p, req[p].op, 204,
              Settle(data, req[p].rid, "favs", {req[p].user}))
    /\ UNCHANGED << recipes, nextId, cart, cartNextId, favorites, favNextId,
                    subscriptions, users, subscriptions_app,
                    foodgram_users >>
    /\ UNCHANGED << ingredient_tables, list_tables >>

\* ------------------------------------------------------------ registration
\* the values a registration request may carry
Emails == {"ann@example.org", "bob@example.org"}
Usernames == {"ann", "bob"}

\* User.objects.filter(email=value).exists()
email_exists(e) == \E i \in 1..Len(users) : users[i].email = e

\* User.objects.filter(username=value).exists()
username_exists(n) == \E i \in 1..Len(users) : users[i].username = n

\* POST /api/users/ (UserListView, AllowAny): UserCreateSerializer is given
\* the request data
Register(p, e, n) ==
    /\ pc[p] = "idle"
    /\ Accept(p, "register", "", 0, "validate_email")
    /\ data' = [data EXCEPT ![p] =
                 [email |-> e, username |-> n, errors |-> FALSE]]
    /\ UNCHANGED << inst, item, retried >>
    /\ UNCHANGED << recipes, nextId, cart, cartNextId >>
    /\ UNCHANGED << ingredient_tables, list_tables, social_tables >>

\* validate_email: the ValidationError is collected and the remaining
\* fields are still validated
validate_email(p) ==
    /\ pc[p] = "validate_email"
    /\ data' = [data EXCEPT ![p].errors = email_exists(data[p].email)]
    /\ pc' = [pc EXCEPT ![p] = "validate_username"]
    /\ response' = NoResponse
    /\ UNCHANGED << req, inst, item, retried >>
    /\ UNCHANGED << recipes, nextId, cart, cartNextId >>
    /\ UNCHANGED << ingredient_tables, list_tables, social_tables >>

\* validate_username, then is_valid(raise_exception=True): 400 when a field
\* has raised ValidationError
validate_username(p) ==
    /\ pc[p] = "validate_username"
    /\ IF data[p].errors \/ username_exists(data[p].username)
       THEN Respond(p, "register", 400)
       ELSE /\ pc' = [pc EXCEPT ![p] = "user_create"]
            /\ response' = NoResponse
            /\ UNCHANGED << req, inst, item, retried, data >>
    /\ UNCHANGED << recipes, nextId, cart, cartNextId >>
    /\ UNCHANGED << ingredient_tables, list_tables, social_tables >>

\* UserCreateSerializer.create: User.objects.create(email=..., username=...,
\* ...) with User imported from django.contrib.auth.models, whose username
\* is unique and whose email is not; IntegrityError is not caught.  The
\* statements that follow (set_password, user.save(), the profile) change
\* neither column and the request is answered 201.
UserCreate(p) ==
    /\ pc[p] = "user_create"
    /\ IF username_exists(data[p].username)
       THEN /\ Respond(p, "register", 500)
            /\ UNCHANGED users
       ELSE /\ users' = Append(users, [email |-> data[p].email,
                                       username |-> data[p].username])
            /\ Respond(p, "register", 201)
    /\ UNCHANGED << recipes, nextId, cart, cartNextId, favorites, favNextId,
                    subscriptions >>
    /\ UNCHANGED << ingredient_tables, list_tables, app_tables >>

\* -------------------------------------------- users.models.FoodgramUserManager
\* An email is its part before the last "@" and its part after it; NoEmail
\* is the empty string.
NoEmail == [name |-> "", domain |-> ""]
ManagerEmails ==
    {NoEmail,
     [name |-> "ann", domain |-> "example.org"],
     [name |-> "ann", domain |-> "EXAMPLE.ORG"],
     [name |-> "bob", domain |-> "example.org"]}

\* BaseUserManager.normalize_email: the part after the last "@" in lower
\* case (str.lower() on the domains in use), the part before it as given
normalize_email(email) ==
    [name |-> email.name,
     domain |-> IF email.domain = "EXAMPLE.ORG" THEN "example.org"
                ELSE email.domain]

\* the unique index of users_foodgramuser.email or .username holds the value
foodgram_user_conflict(email, username) ==
    \E i \in 1..Len(foodgram_users) :
       \/ foodgram_users[i].email = email
       \/ foodgram_users[i].username = username

\* the keyword arguments a caller may pass for is_staff and is_superuser,
\* "unset" for an argument that is not passed
ExtraFields ==
    [is_staff : {"unset", "True", "False"},
     is_superuser : {"unset", "True", "False"}]

\* dict.setdefault(key, value) on one of the two keyword arguments
setdefault(extra_fields, key, value) ==
    IF extra_fields[key] = "unset"
    THEN [extra_fields EXCEPT ![key] = value]
    ELSE extra_fields

\* FoodgramUserManager.create_user(email, username, first_name, last_name,
\* **extra_fields): ValueError for an empty argument, then user.save(), one
\* INSERT that the unique indexes of email and username refuse
\* (IntegrityError); is_staff and is_superuser are False unless they are
\* passed.  The response holds what the call raised, "" when it returned
\* the user.
create_user(p, email, username, first_name, last_name, extra_fields) ==
    /\ pc[p] = "idle"
    /\ IF email = NoEmail \/ username = "" \/ first_name = ""
          \/ last_name = ""
       THEN /\ response' = [op |-> "create_user", status |-> 0,
                            raised |-> "ValueError"]
            /\ UNCHANGED foodgram_users
       ELSE IF foodgram_user_conflict(normalize_email(email), username)
       THEN /\ response' = [op |-> "create_user", status |-> 0,
                            raised |-> "IntegrityError"]
            /\ UNCHANGED foodgram_users
       ELSE /\ foodgram_users' =
                 Append(foodgram_users,
                        [email |-> normalize_email(email),
                         username |-> username,
                         is_staff |->
                           setdefault(extra_fields, "is_staff",
                                      "False").is_staff,
                         is_superuser |->
                           setdefault(extra_fields, "is_superuser",
                                      "False").is_superuser])
            /\ response' = [op |-> "create_user", status |-> 0,
                            raised |-> ""]
    /\ UNCHANGED << pc, req, inst, item, retried, data >>
    /\ UNCHANGED << recipes, nextId, cart, cartNextId, favorites, favNextId,
                    subscriptions, users, favorites_app, subscriptions_app >>
    /\ UNCHANGED << ingredient_tables, list_tables >>

\* FoodgramUserManager.create_superuser: is_staff and is_superuser default
\* to True, ValueError when one of them is passed as something else, then
\* create_user
create_superuser(p, email, username, first_name, last_name, extra_fields) ==
    LET fields == setdefault(setdefault(extra_fields, "is_staff", "True"),
                             "is_superuser", "True")
    IN  IF fields.is_staff /= "True" \/ fields.is_superuser /= "True"
        THEN /\ pc[p] = "idle"
             /\ response' = [op |-> "create_superuser", status |-> 0,
                             raised |-> "ValueError"]
             /\ UNCHANGED << pc, req, inst, item, retried, data >>
             /\ UNCHANGED << recipes, nextId, cart, cartNextId >>
             /\ UNCHANGED << ingredient_tables, list_tables, social_tables >>
        ELSE create_user(p, email, username, first_name, last_name, fields)

\* ----------------------------------------------------------- subscriptions
\* the ids a subscribe request may name: the users and an id without a user
Authors == Users \cup {"u9"}

\* Subscription.objects.filter(user=user, author=author).exists()
subscription_exists(u, a) == subscriptions[<< u, a >>] > 0

\* a view that does not compare the user with the author
SubscribePost_no_self_test(p, u, a) ==
    /\ pc[p] = "idle"
    /\ IF a \notin Users
       THEN /\ response' = [op |-> "subscribe", status |-> 404,
                            user |-> u, author |-> a]
            /\ UNCHANGED << pc, req, data >>
       ELSE /\ Accept(p, "subscribe", u, 0, "sub_exists")
            /\ data' = [data EXCEPT ![p] = [author |-> a]]
    /\ UNCHANGED << inst, item, retried >>
    /\ UNCHANGED << recipes, nextId, cart, cartNextId >>
    /\ UNCHANGED << ingredient_tables, list_tables, social_tables >>

\* POST /api/users/<id>/subscribe/ (SubscribeView.post of api/views.py and
\* users/views.py): get_object_or_404(User, id=id), then 400 when
\* user == author
SubscribePost(p, u, a) ==
    /\ pc[p] = "idle"
    /\ IF a \notin Users
       THEN /\ response' = [op |-> "subscribe", status |-> 404,
                            user |-> u, author |-> a]
            /\ UNCHANGED << pc, req, data >>
       ELSE IF u = a
       THEN /\ response' = [op |-> "subscribe", status |-> 400,
                            user |-> u, author |-> a]
            /\ UNCHANGED << pc, req, data >>
       ELSE /\ Accept(p, "subscribe", u, 0, "sub_exists")
            /\ data' = [data EXCEPT ![p] = [author |-> a]]
    /\ UNCHANGED << inst, item, retried >>
    /\ UNCHANGED << recipes, nextId, cart, cartNextId >>
    /\ UNCHANGED << ingredient_tables, list_tables, social_tables >>

\* if Subscription.objects.filter(user=user, author=author).exists(): 400
SubscribeExists(p) ==
    /\ pc[p] = "sub_exists"
    /\ IF subscription_exists(req[p].user, data[p].author)
       THEN Respond(p, req[p].op, 400)
       ELSE /\ pc' = [pc EXCEPT ![p] = "sub_create"]
            /\ response' = NoResponse
            /\ UNCHANGED << req, inst, item, retried, data >>
    /\ UNCHANGED << recipes, nextId, cart, cartNextId >>
    /\ UNCHANGED << ingredient_tables, list_tables, social_tables >>

\* the INSERT on a table without the UniqueConstraint (user, author)
SubscribeCreate_no_unique(p) ==
    /\ pc[p] = "sub_create"
    /\ subscriptions' =
         [subscriptions EXCEPT ![<< req[p].user, data[p].author >>] = @ + 1]
    /\ Respond(p, req[p].op, 201)
    /\ UNCHANGED << recipes, nextId, cart, cartNextId, favorites, favNextId,
                    users >>
    /\ UNCHANGED << ingredient_tables, list_tables, app_tables >>

\* Subscription.objects.create(user=user, author=author): the
\* UniqueConstraint (user, author) rejects the INSERT when the pair is
\* present; the view does not catch IntegrityError.
SubscribeCreate(p) ==
    /\ pc[p] = "sub_create"
    /\ IF subscription_exists(req[p].user, data[p].author)
       THEN /\ Respond(p, req[p].op, 500)
            /\ UNCHANGED subscriptions
       ELSE /\ subscriptions' =
                 [subscriptions EXCEPT
                     ![<< req[p].user, data[p].author >>] = @ + 1]
            /\ Respond(p, req[p].op, 201)
    /\ UNCHANGED << recipes, nextId, cart, cartNextId, favorites, favNextId,
                    users >>
    /\ UNCHANGED << ingredient_tables, list_tables, app_tables >>

\* DELETE /api/users/<id>/subscribe/: get_object_or_404(User, id=id)
SubscribeDelete(p, u, a) ==
    /\ pc[p] = "idle"
    /\ IF a \notin Users
       THEN /\ response' = [op |-> "unsubscribe", status |-> 404,
                            user |-> u, author |-> a]
            /\ UNCHANGED << pc, req, data >>
       ELSE /\ Accept(p, "unsubscribe", u, 0, "unsub_exists")
            /\ data' = [data EXCEPT ![p] = [author |-> a]]
    /\ UNCHANGED << inst, item, retried >>
    /\ UNCHANGED << recipes, nextId, cart, cartNextId >>
    /\ UNCHANGED << ingredient_tables, list_tables, social_tables >>

\* if subscription.exists(): ... else 400
UnsubscribeExists(p) ==
    /\ pc[p] = "unsub_exists"
    /\ IF ~subscription_exists(req[p].user, data[p].author)
       THEN Respond(p, req[p].op, 400)
       ELSE /\ pc' = [pc EXCEPT ![p] = "unsub_delete"]
            /\ response' = NoResponse
            /\ UNCHANGED << req, inst, item, retried, data >>
    /\ UNCHANGED << recipes, nextId, cart, cartNextId >>
    /\ UNCHANGED << ingredient_tables, list_tables, social_tables >>

\* subscription.delete(): DELETE ... WHERE user = ... AND author = ...
UnsubscribeDelete(p) ==
    /\ pc[p] = "unsub_delete"
    /\ subscriptions' =
         [subscriptions EXCEPT ![<< req[p].user, data[p].author >>] = 0]
    /\ Respond(p, req[p].op, 204)
    /\ UNCHANGED << recipes, nextId, cart, cartNextId, favorites, favNextId,
                    users >>
    /\ UNCHANGED << ingredient_tables, list_tables, app_tables >>

\* --------------------------------------------- subscriptions app
\* Subscription.objects.filter(user=user, author=author).exists() on the
\* Subscription model of the subscriptions app
subscriptions_Subscription_exists(u, a) == subscriptions_app[<< u, a >>] > 0

\* SubscriptionViewSet.subscribe of the subscriptions app:
\* CustomUser.objects.get(pk=pk) raises DoesNotExist, which nothing catches,
\* for an id without a user; then 400 when user == author
subscriptions_SubscriptionViewSet_subscribe(p, u, a) ==
    /\ pc[p] = "idle"
    /\ IF a \notin Users
       THEN /\ response' = [op |-> "subscriptions_subscribe", status |-> 500,
                            user |-> u, author |-> a]
            /\ UNCHANGED << pc, req, data >>
       ELSE IF u = a
       THEN /\ response' = [op |-> "subscriptions_subscribe", status |-> 400,
                            user |-> u, author |-> a]
            /\ UNCHANGED << pc, req, data >>
       ELSE /\ Accept(p, "subscriptions_subscribe", u, 0, "subs_exists")
            /\ data' = [data EXCEPT ![p] = [author |-> a]]
    /\ UNCHANGED << inst, item, retried >>
    /\ UNCHANGED << recipes, nextId, cart, cartNextId >>
    /\ UNCHANGED << ingredient_tables, list_tables, social_tables >>

\* if Subscription.objects.filter(user=user, author=author).exists(): 400
subscriptions_subscribe_exists(p) ==
    /\ pc[p] = "subs_exists"
    /\ IF subscriptions_Subscription_exists(req[p].user, data[p].author)
       THEN Respond(p, req[p].op, 400)
       ELSE /\ pc' = [pc EXCEPT ![p] = "subs_create"]
            /\ response' = NoResponse
            /\ UNCHANGED << req, inst, item, retried, data >>
    /\ UNCHANGED << recipes, nextId, cart, cartNextId >>
    /\ UNCHANGED << ingredient_tables, list_tables, social_tables >>

\* Subscription.objects.create(user=user, author=author): the constraint
\* unique_subscription rejects the INSERT when the pair is present; the view
\* does not catch IntegrityError
subscriptions_subscribe_create(p) ==
    /\ pc[p] = "subs_create"
    /\ IF subscriptions_Subscription_exists(req[p].user, data[p].author)
       THEN /\ Respond(p, req[p].op, 500)
            /\ UNCHANGED subscriptions_app
       ELSE /\ subscriptions_app' =
                 [subscriptions_app EXCEPT
                     ![<< req[p].user, data[p].author >>] = @ + 1]
            /\ Respond(p, req[p].op, 201)
    /\ UNCHANGED << recipes, nextId, cart, cartNextId, favorites, favNextId,
                    subscriptions, users, favorites_app,
                    foodgram_users >>
    /\ UNCHANGED << ingredient_tables, list_tables >>

\* SubscriptionViewSet.unsubscribe: CustomUser.objects.get(pk=pk) raises
\* DoesNotExist, which nothing catches, for an id without a user
subscriptions_SubscriptionViewSet_unsubscribe(p, u, a) ==
    /\ pc[p] = "idle"
    /\ IF a \notin Users
       THEN /\ response' = [op |-> "subscriptions_unsubscribe",
                            status |-> 500, user |-> u, author |-> a]
            /\ UNCHANGED << pc, req, data >>
       ELSE /\ Accept(p, "subscriptions_unsubscribe", u, 0, "subs_unsub")
            /\ data' = [data EXCEPT ![p] = [author |-> a]]
    /\ UNCHANGED << inst, item, retried >>
    /\ UNCHANGED << recipes, nextId, cart, cartNextId >>
    /\ UNCHANGED << ingredient_tables, list_tables, social_tables >>

\* if subscription.exists(): ... else 400
subscriptions_unsubscribe_exists(p) ==
    /\ pc[p] = "subs_unsub"
    /\ IF ~subscriptions_Subscription_exists(req[p].user, data[p].author)
       THEN Respond(p, req[p].op, 400)
       ELSE /\ pc' = [pc EXCEPT ![p] = "subs_delete"]
            /\ response' = NoResponse
            /\ UNCHANGED << req, inst, item, retried, data >>
    /\ UNCHANGED << recipes, nextId, cart, cartNextId >>
    /\ UNCHANGED << ingredient_tables, list_tables, social_tables >>

\* subscription.delete(): the rows of the pair that are stored now
subscriptions_unsubscribe_delete(p) ==
    /\ pc[p] = "subs_delete"
    /\ subscriptions_app' =
         [subscriptions_app EXCEPT ![<< req[p].user, data[p].author >>] = 0]
    /\ Respond(p, req[p].op, 204)
    /\ UNCHANGED << recipes, nextId, cart, cartNextId, favorites, favNextId,
                    subscriptions, users, favorites_app,
                    foodgram_users >>
    /\ UNCHANGED << ingredient_tables, list_tables >>

\* -------------------------------------------- shopping-cart download
\* one element of the list "lines" the download joins into the file: the
\* title, a recipe heading f"{recipe.name}: \n" ("recipe"), an ingredient
\* line f" - {name} ({measurement_unit}): {amount}\n" ("item"), the blank
\* line that closes a recipe, or a line of an aggregated list
\* f"- {name}: {amount_total} {measurement_unit}\n" ("total")
Line(kind, name, unit, amount) ==
    [kind |-> kind, name |-> name, unit |-> unit, amount |-> amount]

\* for recipe_ingredient in recipe.recipe_ingredients.all(): one line per row
\* of the prefetched RecipeIngredient rows of recipe r
ingredient_lines(r) ==
    [k \in 1..Len(recipe_ingredients[r]) |->
        LET row == recipe_ingredients[r][k]
        IN  Line("item", Ingredients[row.ingredient].name,
                 Ingredients[row.ingredient].measurement_unit, row.amount)]

\* the indexes of recipes_shoppingcart: the primary key and the index of the
\* UniqueConstraint (user, recipe)
CartOrders == {"pk", "unique"}

\* TRUE when the database returns cart row a no later than cart row b: in
\* the order of the index it reads, the queryset having no order_by and
\* ShoppingCart no Meta.ordering
cart_row_before(a, b) ==
    IF cart_order = "pk" THEN a.id <= b.id
    ELSE a.recipe < b.recipe \/ (a.recipe = b.recipe /\ a.id <= b.id)

\* ShoppingCart rows of one user with select_related('recipe'): the rows in
\* the order of the database, each joined (INNER JOIN on the non-null
\* foreign key) with the recipe row it references
RECURSIVE cart_recipes(_)
cart_recipes(rows) ==
    IF rows = {} THEN << >>
    ELSE LET first == CHOOSE a \in rows : \A b \in rows : cart_row_before(a, b)
             joined == IF Persisted(first.recipe)
                       THEN << [recipe |-> first.recipe,
                                name |-> recipes[first.recipe].name] >>
                       ELSE << >>
         IN  joined \o cart_recipes(rows \ {first})

\* the body of "for item in shopping_cart": heading, ingredient lines and a
\* blank line for every recipe of the selected cart rows
RECURSIVE recipe_blocks(_)
recipe_blocks(rs) ==
    IF rs = << >> THEN << >>
    ELSE << Line("recipe", Head(rs).name, "", 0) >>
             \o ingredient_lines(Head(rs).recipe)
             \o << Line("blank", "", "", 0) >>
             \o recipe_blocks(Tail(rs))

\* lines = ["title"] followed by the blocks of the selected rows
selected_lines(rs) == << Line("title", "", "", 0) >> \o recipe_blocks(rs)

\* the lines of a set of cart rows selected and rendered in one state
cart_lines(rows) == selected_lines(cart_recipes(rows))

\* GET /api/recipes/download_shopping_cart/: shopping_cart.exists(), 400 with
\* {"detail": ...} when the user's cart is empty
DownloadShoppingCart(p, u) ==
    /\ pc[p] = "idle"
    /\ IF {row \in cart : row.user = u} = {}
       THEN Respond(p, "download", 400)
       ELSE /\ Accept(p, "download", u, 0, "dl_select")
            /\ UNCHANGED << inst, item, retried, data >>
    /\ UNCHANGED << recipes, nextId, cart, cartNextId >>
    /\ UNCHANGED << ingredient_tables, list_tables, social_tables >>

\* "for item in shopping_cart" evaluates the queryset: its first query
\* selects the user's cart rows joined with their recipes
DownloadSelect(p) ==
    /\ pc[p] = "dl_select"
    /\ data' = [data EXCEPT ![p] =
                  [rows |-> cart_recipes({row \in cart :
                                             row.user = req[p].user})]]
    /\ pc' = [pc EXCEPT ![p] = "dl_render"]
    /\ response' = NoResponse
    /\ UNCHANGED << req, inst, item, retried >>
    /\ UNCHANGED << recipes, nextId, cart, cartNextId >>
    /\ UNCHANGED << ingredient_tables, list_tables, social_tables >>

\* a download that empties the cart it has exported
DownloadRender_clearing(p) ==
    /\ pc[p] = "dl_render"
    /\ response' = [op |-> "download", status |-> 200,
                    user |-> req[p].user,
                    body |-> selected_lines(data[p].rows)]
    /\ cart' = {row \in cart : row.user /= req[p].user}
    /\ pc' = [pc EXCEPT ![p] = "idle"]
    /\ req' = [req EXCEPT ![p] = NoReq]
    /\ data' = [data EXCEPT ![p] = NoData]
    /\ UNCHANGED << recipes, nextId, cartNextId, inst, item, retried >>
    /\ UNCHANGED << ingredient_tables, list_tables, social_tables >>

\* prefetch_related('recipe__recipe_ingredients__ingredient') reads the
\* RecipeIngredient rows of the selected recipes in a query of its own; the
\* lines are joined and sent: HttpResponse(content, 'text/plain') with
\* filename shopping_cart.txt
DownloadRender(p) ==
    /\ pc[p] = "dl_render"
    /\ response' = [op |-> "download", status |-> 200,
                    user |-> req[p].user,
                    body |-> selected_lines(data[p].rows)]
    /\ pc' = [pc EXCEPT ![p] = "idle"]
    /\ req' = [req EXCEPT ![p] = NoReq]
    /\ data' = [data EXCEPT ![p] = NoData]
    /\ UNCHANGED << recipes, nextId, cart, cartNextId, inst, item, retried >>
    /\ UNCHANGED << ingredient_tables, list_tables, social_tables >>

\* ------------------------------------------------- shopping list (list app)
\* ShoppingList.objects.filter(user=user, recipe=recipe)
shopping_list_rows(u, r) ==
    {row \in shopping_list : row.user = u /\ row.recipe = r}

\* POST /list/: the field recipe_id is a PrimaryKeyRelatedField over
\* Recipe.objects.all(), an unknown pk is a validation error
ShoppingListCreate(p, u, r) ==
    /\ pc[p] = "idle"
    /\ IF ~Persisted(r)
       THEN Respond(p, "list_add", 400)
       ELSE /\ Accept(p, "list_add", u, r, "sl_validate")
            /\ UNCHANGED << inst, item, retried, data >>
    /\ UNCHANGED << recipes, nextId, cart, cartNextId >>
    /\ UNCHANGED << ingredient_tables, list_tables, social_tables >>

\* ShoppingListSerializer.validate: ValidationError when the pair exists
ShoppingListValidate(p) ==
    /\ pc[p] = "sl_validate"
    /\ IF shopping_list_rows(req[p].user, req[p].rid) /= {}
       THEN Respond(p, req[p].op, 400)
       ELSE /\ pc' = [pc EXCEPT ![p] = "sl_create"]
            /\ response' = NoResponse
            /\ UNCHANGED << req, inst, item, retried, data >>
    /\ UNCHANGED << recipes, nextId, cart, cartNextId >>
    /\ UNCHANGED << ingredient_tables, list_tables, social_tables >>

\* ShoppingListSerializer.create: ShoppingList.objects.create(user, recipe);
\* the foreign key and the UniqueConstraint (user, recipe) can refuse it
ShoppingListInsert(p) ==
    /\ pc[p] = "sl_create"
    /\ IF \/ ~Persisted(req[p].rid)
          \/ shopping_list_rows(req[p].user, req[p].rid) /= {}
       THEN /\ Respond(p, req[p].op, 500)
            /\ UNCHANGED shopping_list
       ELSE /\ shopping_list' = shopping_list \cup
                   {[user |-> req[p].user, recipe |-> req[p].rid]}
            /\ Respond(p, req[p].op, 201)
    /\ UNCHANGED << recipes, nextId, cart, cartNextId, ingredient_tables,
                    group_order, cart_order, cascade_order,
                    social_tables >>

\* DELETE /list/<pk>/: ShoppingListViewSet.destroy, 400 when
\* shopping_list_item.exists() is false
ShoppingListDestroy(p, u, r) ==
    /\ pc[p] = "idle"
    /\ IF shopping_list_rows(u, r) = {}
       THEN Respond(p, "list_remove", 400)
       ELSE /\ Accept(p, "list_remove", u, r, "sl_delete")
            /\ UNCHANGED << inst, item, retried, data >>
    /\ UNCHANGED << recipes, nextId, cart, cartNextId >>
    /\ UNCHANGED << ingredient_tables, list_tables, social_tables >>

\* shopping_list_item.delete(): DELETE ... WHERE user = ... AND recipe = ...
ShoppingListDelete(p) ==
    /\ pc[p] = "sl_delete"
    /\ ~row_locks(p, req[p].rid, "list", {req[p].user})
    /\ shopping_list' =
         shopping_list \ shopping_list_rows(req[p].user, req[p].rid)
    /\ Finish(p, req[p].op, 204,
              Settle(data, req[p].rid, "list", {req[p].user}))
    /\ UNCHANGED << recipes, nextId, cart, cartNextId, ingredient_tables,
                    group_order, cart_order, cascade_order,
                    social_tables >>

RECURSIVE amount_sum(_, _)
\* Sum('amount') over the rows of a sequence that hold ingredient i
amount_sum(rows, i) ==
    IF rows = << >> THEN 0
    ELSE (IF Head(rows).ingredient = i THEN Head(rows).amount ELSE 0)
             + amount_sum(Tail(rows), i)

RECURSIVE amount_total(_, _)
\* annotate(amount_total=Sum('amount')) of the group of ingredient i over the
\* RecipeIngredient rows of a set of recipes
amount_total(rs, i) ==
    IF rs = {} THEN 0
    ELSE LET r == CHOOSE x \in rs : TRUE
         IN  amount_sum(recipe_ingredients[r], i) + amount_total(rs \ {r}, i)

\* .values('ingredient__name', 'ingredient__measurement_unit'): the groups,
\* one for every ingredient that has a row in one of the recipes
listed_ingredients(rs) ==
    {i \in IngredientIds :
        \E r \in rs : \E k \in 1..Len(recipe_ingredients[r]) :
            recipe_ingredients[r][k].ingredient = i}

\* the title and the lines f"- {name}: {amount_total} {unit}\n" of the
\* groups, in the order the database returns them (the query has no order_by)
total_lines(rs) ==
    LET listed(i) == i \in listed_ingredients(rs)
        groups == SelectSeq(group_order, listed)
    IN  << Line("title", "", "", 0) >>
            \o [k \in 1..Len(groups) |->
                   Line("total", Ingredients[groups[k]].name,
                        Ingredients[groups[k]].measurement_unit,
                        amount_total(rs, groups[k]))]

\* RecipeIngredient.objects.filter(recipe__in_shopping_list__user=user): the
\* rows of the recipes in the shopping list of user u, grouped and summed
shopping_list_lines(u) ==
    total_lines({row.recipe : row \in {x \in shopping_list : x.user = u}})

\* GET /list/download_shopping_list/: always a text file shopping_list.txt
download_shopping_list(p, u) ==
    /\ pc[p] = "idle"
    /\ response' = [op |-> "list_download", status |-> 200, user |-> u,
                    body |-> shopping_list_lines(u)]
    /\ UNCHANGED << recipes, nextId, cart, cartNextId, pc, req, inst, item,
                    retried, data >>
    /\ UNCHANGED << ingredient_tables, list_tables, social_tables >>

\* ------------------------------------------------- URLs and share links
\* a URL path is the sequence of its segments: a literal, a number or
\* another string; a route is a sequence of literals and <int:...> converters
lit(s) == [lit |-> s]
num(n) == [int |-> n]
str(t) == [str |-> t]
int_converter == [conv |-> "int"]

\* urlpatterns of api/urls.py
urlpatterns ==
    << [name |-> "ingredient-list",
        route |-> << lit("api"), lit("ingredients") >>],
       [name |-> "ingredient-detail",
        route |-> << lit("api"), lit("ingredients"), int_converter >>],
       [name |-> "recipe-list-create",
        route |-> << lit("api"), lit("recipes") >>],
       [name |-> "download-shopping-cart",
        route |-> << lit("api"), lit("recipes"),
                     lit("download_shopping_cart") >>],
       [name |-> "recipe-detail",
        route |-> << lit("api"), lit("recipes"), int_converter >>],
       [name |-> "recipe-get-link",
        route |-> << lit("api"), lit("recipes"), int_converter,
                     lit("get-link") >>],
       [name |-> "shopping-cart",
        route |-> << lit("api"), lit("recipes"), int_converter,
                     lit("shopping_cart") >>],
       [name |-> "favorite",
        route |-> << lit("api"), lit("recipes"), int_converter,
                     lit("favorite") >>],
       [name |-> "tag-list", route |-> << lit("api"), lit("tags") >>],
       [name |-> "tag-detail",
        route |-> << lit("api"), lit("tags"), int_converter >>],
       [name |-> "login",
        route |-> << lit("api"), lit("auth"), lit("token"), lit("login") >>],
       [name |-> "token-logout",
        route |-> << lit("api"), lit("auth"), lit("token"), lit("logout") >>],
       [name |-> "user-list", route |-> << lit("api"), lit("users") >>],
       [name |-> "user-detail",
        route |-> << lit("api"), lit("users"), int_converter >>],
       [name |-> "current-user",
        route |-> << lit("api"), lit("users"), lit("me") >>],
       [name |-> "update-avatar",
        route |-> << lit("api"), lit("users"), lit("me"), lit("avatar") >>],
       [name |-> "set-password",
        route |-> << lit("api"), lit("users"), lit("set_password") >>],
       [name |-> "subscriptions",
        route |-> << lit("api"), lit("users"), lit("subscriptions") >>],
       [name |-> "subscribe",
        route |-> << lit("api"), lit("users"), int_converter,
                     lit("subscribe") >>] >>

\* one segment against one element of a route
match_segment(pat, seg) ==
    IF "lit" \in DOMAIN pat
    THEN "lit" \in DOMAIN seg /\ seg.lit = pat.lit
    ELSE "int" \in DOMAIN seg

match(route, path) ==
    /\ Len(route) = Len(path)
    /\ \A k \in 1..Len(route) : match_segment(route[k], path[k])

\* the URL resolver: the name of the first pattern that matches the path,
\* "Resolver404" when none does
resolve(path) ==
    LET hits == {k \in 1..Len(urlpatterns) : match(urlpatterns[k].route, path)}
    IN  IF hits = {} THEN "Resolver404"
        ELSE urlpatterns[CHOOSE k \in hits : \A j \in hits : k <= j].name

\* GET of a path that is either unknown to urlpatterns (404) or the get-link
\* endpoint: RecipeLinkView.get does get_object_or_404 and then calls
\* recipe.get_absolute_url(), a method the model Recipe does not define, so
\* the request ends with AttributeError (500)
Get(p, path) ==
    /\ pc[p] = "idle"
    /\ resolve(path) \in {"Resolver404", "recipe-get-link"}
    /\ response' =
         IF resolve(path) = "Resolver404"
         THEN [op |-> "get", status |-> 404, path |-> path]
         ELSE [op |-> "get_link", rid |-> path[3].int,
               status |-> IF ~Persisted(path[3].int) THEN 404 ELSE 500]
    /\ UNCHANGED << recipes, nextId, cart, cartNextId, pc, req, inst, item,
                    retried, data >>
    /\ UNCHANGED << ingredient_tables, list_tables, social_tables >>

\* RecipeLinkView.get of recipes/views.py:
\* short_link = f"https://foodgram.example.org/s/{recipe.id}"
recipes_RecipeLinkView_get(p, id) ==
    /\ pc[p] = "idle"
    /\ response' =
         IF ~Persisted(id)
         THEN [op |-> "get_link", rid |-> id, status |-> 404]
         ELSE [op |-> "get_link", rid |-> id, status |-> 200,
               link |-> << lit("s"), num(id) >>]
    /\ UNCHANGED << recipes, nextId, cart, cartNextId, pc, req, inst, item,
                    retried, data >>
    /\ UNCHANGED << ingredient_tables, list_tables, social_tables >>

\* ------------------------------------------------------- specifications
\* request bodies
Flour20 ==
    [tags |-> << 1 >>,
     ingredients |-> << [ingredient |-> 1, amount |-> 20] >>,
     cooking_time |-> 1]

FlourEgg ==
    [tags |-> << 1 >>,
     ingredients |-> << [ingredient |-> 1, amount |-> 30],
                        [ingredient |-> 2, amount |-> 2] >>,
     cooking_time |-> 1]

\* Recipes and their short links: the create, update and delete requests of
\* one author, handled concurrently; recipes are created as "borsch" and
\* the updates, which address the first recipe, rename it "soup"; the
\* deletions address the first two recipes.
Next ==
    \/ \E p \in Procs : CreateRecipe(p, "u1", "borsch", Flour20)
    \/ \E p \in Procs : Validate(p)
    \/ \E p \in Procs : Save(p)
    \/ \E p \in Procs : generate_short_url(p)
    \/ \E p \in Procs : SuperSave(p)
    \/ \E p \in Procs : SuperSaveInsert(p)
    \/ \E p \in Procs : TagsSet(p)
    \/ \E p \in Procs : TagsAdd(p)
    \/ \E p \in Procs : IngredientsDelete(p)
    \/ \E p \in Procs : IngredientCreate(p)
    \/ \E p \in Procs : UpdateRecipe(p, "u1", 1, "soup", Flour20)
    \/ \E p \in Procs, r \in 1..2 : DestroyRecipe(p, "u1", r)
    \/ \E p \in Procs : DestroyCascade(p)
    \/ \E p \in Procs : DestroyDelete(p)

Spec == Init /\ [][Next]_vars

\* Creations, and deletions of the first recipe, with a fair random source:
\* an outcome that would make generate_short_url return is not passed over
\* for ever.
NextCreate ==
    \/ \E p \in Procs : CreateRecipe(p, "u1", "borsch", Flour20)
    \/ \E p \in Procs : Validate(p)
    \/ \E p \in Procs : Save(p)
    \/ \E p \in Procs : generate_short_url(p)
    \/ \E p \in Procs : SuperSave(p)
    \/ \E p \in Procs : TagsSet(p)
    \/ \E p \in Procs : TagsAdd(p)
    \/ \E p \in Procs : IngredientCreate(p)
    \/ \E p \in Procs : DestroyRecipe(p, "u1", 1)
    \/ \E p \in Procs : DestroyCascade(p)
    \/ \E p \in Procs : DestroyDelete(p)

FairSpec ==
    /\ Init
    /\ [][NextCreate]_vars
    /\ \A p \in Procs : \A s \in 1..MaxDraws :
         SF_vars(generate_iteration(p, s) /\ pc'[p] = "write")

\* Ingredient rows: over a database that holds recipe 1 (flour, 20 g) the
\* author creates one more recipe, and updates and deletes recipes, with the
\* ingredient lists (flour 20) and (flour 30, egg 2).
ValidBodies == {Flour20, FlourEgg}

InitIngr ==
    /\ recipes = [r \in RecipeIds |->
                    IF r = 1
                    THEN [short_link |-> new_short_url(1), author |-> "u1",
                          name |-> "borsch"]
                    ELSE NoRecipe]
    /\ nextId = MaxRecipes
    /\ cart = {}
    /\ cartNextId = 1
    /\ pc = [p \in Procs |-> "idle"]
    /\ req = [p \in Procs |-> NoReq]
    /\ inst = [p \in Procs |-> NoInst]
    /\ item = [p \in Procs |-> 0]
    /\ retried = [p \in Procs |-> FALSE]
    /\ response = NoResponse
    /\ recipe_ingredients =
         [r \in RecipeIds |->
            IF r = 1 THEN << [ingredient |-> 1, amount |-> 20] >> ELSE << >>]
    /\ recipe_tags = {[recipe |-> 1, tag |-> 1]}
    /\ shopping_list = {}
    /\ group_order = [i \in IngredientIds |-> i]
    /\ cart_order = "pk"
    /\ AppsLast
    /\ data = [p \in Procs |-> NoData]
    /\ NoSocialRows

NextIngr ==
    \/ \E p \in Procs, d \in ValidBodies : CreateRecipe(p, "u1", "soup", d)
    \/ \E p \in Procs : Validate(p)
    \/ \E p \in Procs : Save(p)
    \/ \E p \in Procs : generate_short_url(p)
    \/ \E p \in Procs : SuperSave(p)
    \/ \E p \in Procs : SuperSaveInsert(p)
    \/ \E p \in Procs : TagsSet(p)
    \/ \E p \in Procs : TagsAdd(p)
    \/ \E p \in Procs : IngredientsDelete(p)
    \/ \E p \in Procs : IngredientCreate(p)
    \/ \E p \in Procs, r \in RecipeIds, d \in ValidBodies :
          UpdateRecipe(p, "u1", r, "soup", d)
    \/ \E p \in Procs, r \in RecipeIds : DestroyRecipe(p, "u1", r)
    \/ \E p \in Procs : DestroyCascade(p)
    \/ \E p \in Procs : DestroyDelete(p)

SpecIngr == InitIngr /\ [][NextIngr]_vars

\* Validation: create and update requests whose bodies are valid or break
\* one rule of RecipeSerializer.validate each (no tags, a repeated tag, an
\* unknown tag, no ingredients, a repeated ingredient, an amount of 0, a
\* cooking_time of 0) or a validator of a field (an amount or a cooking_time
\* above its maximum).
InvalidBodies ==
    { [Flour20 EXCEPT !.tags = << >>],
      [Flour20 EXCEPT !.tags = << 1, 1 >>],
      [Flour20 EXCEPT !.tags = << 3 >>],
      [Flour20 EXCEPT !.ingredients = << >>],
      [Flour20 EXCEPT !.ingredients =
          << [ingredient |-> 1, amount |-> 20],
             [ingredient |-> 1, amount |-> 10] >>],
      [Flour20 EXCEPT !.ingredients = << [ingredient |-> 1, amount |-> 0] >>],
      [Flour20 EXCEPT !.ingredients =
          << [ingredient |-> 1, amount |-> 40000] >>],
      [Flour20 EXCEPT !.cooking_time = 0],
      [Flour20 EXCEPT !.cooking_time = 40000] }

Bodies == ValidBodies \cup InvalidBodies

NextValid ==
    \/ \E p \in Procs, d \in Bodies : CreateRecipe(p, "u1", "soup", d)
    \/ \E p \in Procs, r \in RecipeIds, d \in Bodies :
          UpdateRecipe(p, "u1", r, "soup", d)
    \/ \E p \in Procs : Validate(p)
    \/ \E p \in Procs : Save(p)
    \/ \E p \in Procs : generate_short_url(p)
    \/ \E p \in Procs : SuperSave(p)
    \/ \E p \in Procs : TagsSet(p)
    \/ \E p \in Procs : TagsAdd(p)
    \/ \E p \in Procs : IngredientsDelete(p)
    \/ \E p \in Procs : IngredientCreate(p)

SpecValid == InitIngr /\ [][NextValid]_vars

\* Removal from the shopping cart, the favorites, the shopping list of the
\* list app and the favorites of the favorites app. One of the four tables
\* holds recipes 1 and 2 for u1 and recipe 1 for u2; each of the other
\* tables holds recipe 1 for u2. Both users send removal requests for any
\* recipe to every endpoint.
HeldPairs == {<< "u1", 1 >>, << "u1", 2 >>, << "u2", 1 >>}

\* the primary key the row of a held pair got when it was added
HeldId(pair) == IF pair[1] = "u2" THEN 3 ELSE pair[2]

HeldRows ==
    {[id |-> HeldId(pair), user |-> pair[1], recipe |-> pair[2]] :
        pair \in HeldPairs}

\* the pair every table holds
KeptPair == << "u2", 1 >>

RemoveTables == {"cart", "favorites", "shopping_list", "favorites_app"}

\* the pairs of table t when table full is the one that holds all of them
held_pairs(t, full) == IF t = full THEN HeldPairs ELSE {KeptPair}

held_rows(t, full) ==
    {[id |-> HeldId(pair), user |-> pair[1], recipe |-> pair[2]] :
        pair \in held_pairs(t, full)}

InitRemove ==
    /\ recipes = [r \in RecipeIds |->
                    IF r <= MaxDraws
                    THEN [short_link |-> new_short_url(r), author |-> "u1",
                          name |-> "borsch"]
                    ELSE NoRecipe]
    /\ nextId = MaxRecipes + 1
    /\ cartNextId = Cardinality(HeldRows) + 1
    /\ pc = [p \in Procs |-> "idle"]
    /\ req = [p \in Procs |-> NoReq]
    /\ inst = [p \in Procs |-> NoInst]
    /\ item = [p \in Procs |-> 0]
    /\ retried = [p \in Procs |-> FALSE]
    /\ response = NoResponse
    /\ recipe_ingredients =
         [r \in RecipeIds |->
            IF r <= MaxDraws THEN << [ingredient |-> 1, amount |-> 20] >>
            ELSE << >>]
    /\ recipe_tags = {[recipe |-> r, tag |-> 1] : r \in 1..MaxDraws}
    /\ group_order = [i \in IngredientIds |-> i]
    /\ cart_order = "pk"
    /\ AppsLast
    /\ data = [p \in Procs |-> NoData]
    /\ favNextId = Cardinality(HeldRows) + 1
    /\ subscriptions = [pair \in Users \X Users |-> 0]
    /\ users = << >>
    /\ subscriptions_app = [pair \in Users \X Users |-> 0]
    /\ foodgram_users = << >>
    /\ \E full \in RemoveTables :
          /\ cart = held_rows("cart", full)
          /\ favorites = held_rows("favorites", full)
          /\ shopping_list =
               {[user |-> pair[1], recipe |-> pair[2]] :
                   pair \in held_pairs("shopping_list", full)}
          /\ favorites_app =
               [pair \in Users \X RecipeIds |->
                  IF pair \in held_pairs("favorites_app", full)
                  THEN 1 ELSE 0]

NextRemove ==
    \/ \E p \in Procs, u \in Users, r \in RecipeIds : RelationDelete(p, u, r)
    \/ \E p \in Procs : RelationFirst(p)
    \/ \E p \in Procs : RelationItemDelete(p)
    \/ \E p \in Procs, u \in Users, r \in RecipeIds : FavoriteDelete(p, u, r)
    \/ \E p \in Procs : FavoriteFirst(p)
    \/ \E p \in Procs : FavoriteItemDelete(p)
    \/ \E p \in Procs, u \in Users, r \in RecipeIds :
          favorites_FavoriteViewSet_destroy(p, u, r)
    \/ \E p \in Procs : favorites_Favorite_delete(p)
    \/ \E p \in Procs, u \in Users, r \in RecipeIds :
          ShoppingListDestroy(p, u, r)
    \/ \E p \in Procs : ShoppingListDelete(p)

SpecRemove == InitRemove /\ [][NextRemove]_vars

\* Registration: requests with any email and username, handled concurrently,
\* beside calls of the manager of FoodgramUser: create_user with any
\* arguments, create_superuser for bob with any is_staff and is_superuser.
NextRegister ==
    \/ \E p \in Procs, e \in Emails, n \in Usernames : Register(p, e, n)
    \/ \E p \in Procs : validate_email(p)
    \/ \E p \in Procs : validate_username(p)
    \/ \E p \in Procs : UserCreate(p)
    \/ \E p \in Procs, email \in ManagerEmails,
          username \in {"", "ann", "bob"},
          first_name \in {"", "Ann"}, last_name \in {"", "Lee"} :
          create_user(p, email, username, first_name, last_name,
                      [is_staff |-> "unset", is_superuser |-> "unset"])
    \/ \E p \in Procs, extra_fields \in ExtraFields :
          create_superuser(p, [name |-> "bob", domain |-> "example.org"],
                           "bob", "Bob", "Lee", extra_fields)

SpecRegister == Init /\ [][NextRegister]_vars

\* Subscriptions: both users subscribe to and unsubscribe from any id,
\* their own included, through both revisions of the subscribe endpoint.
NextSub ==
    \/ \E p \in Procs, u \in Users, a \in Authors : SubscribePost(p, u, a)
    \/ \E p \in Procs, u \in Users, a \in Authors :
          subscriptions_SubscriptionViewSet_subscribe(p, u, a)
    \/ \E p \in Procs : subscriptions_subscribe_exists(p)
    \/ \E p \in Procs : subscriptions_subscribe_create(p)
    \/ \E p \in Procs, u \in Users, a \in Authors :
          subscriptions_SubscriptionViewSet_unsubscribe(p, u, a)
    \/ \E p \in Procs : subscriptions_unsubscribe_exists(p)
    \/ \E p \in Procs : subscriptions_unsubscribe_delete(p)
    \/ \E p \in Procs : SubscribeExists(p)
    \/ \E p \in Procs : SubscribeCreate(p)
    \/ \E p \in Procs, u \in Users, a \in Authors : SubscribeDelete(p, u, a)
    \/ \E p \in Procs : UnsubscribeExists(p)
    \/ \E p \in Procs : UnsubscribeDelete(p)

SpecSub == Init /\ [][NextSub]_vars

\* Permissions on the recipe detail endpoints: recipe 1 belongs to u1 and
\* recipe 2 to u2; every request comes from u2, to either recipe and to
\* either revision of the detail view.
ForeignRecipe ==
    [short_link |-> new_short_url(1), author |-> "u1", name |-> "borsch"]

InitPerm ==
    /\ recipes = [r \in RecipeIds |->
                    IF r = 1 THEN ForeignRecipe
                    ELSE IF r = 2
                    THEN [short_link |-> new_short_url(2), author |-> "u2",
                          name |-> "borsch"]
                    ELSE NoRecipe]
    /\ nextId = MaxRecipes + 1
    /\ cart = {}
    /\ cartNextId = 1
    /\ pc = [p \in Procs |-> "idle"]
    /\ req = [p \in Procs |-> NoReq]
    /\ inst = [p \in Procs |-> NoInst]
    /\ item = [p \in Procs |-> 0]
    /\ retried = [p \in Procs |-> FALSE]
    /\ response = NoResponse
    /\ recipe_ingredients =
         [r \in RecipeIds |->
            IF r <= 2 THEN << [ingredient |-> 1, amount |-> 20] >> ELSE << >>]
    /\ recipe_tags = {[recipe |-> 1, tag |-> 1], [recipe |-> 2, tag |-> 1]}
    /\ shopping_list = {}
    /\ group_order = [i \in IngredientIds |-> i]
    /\ cart_order = "pk"
    /\ AppsLast
    /\ data = [p \in Procs |-> NoData]
    /\ NoSocialRows

NextPerm ==
    \/ \E p \in Procs, r \in RecipeIds : RetrieveRecipe(p, "u2", r)
    \/ \E p \in Procs, r \in RecipeIds :
          UpdateRecipe(p, "u2", r, "soup", FlourEgg)
    \/ \E p \in Procs, r \in RecipeIds : DestroyRecipe(p, "u2", r)
    \/ \E p \in Procs, r \in RecipeIds :
          recipes_RecipeDetailView_put(p, "u2", r, "soup", FlourEgg)
    \/ \E p \in Procs, r \in RecipeIds :
          recipes_RecipeDetailView_patch(p, "u2", r, "soup", FlourEgg)
    \/ \E p \in Procs : recipes_RecipeDetailView_partial_update(p)
    \/ \E p \in Procs, r \in RecipeIds :
          recipes_RecipeDetailView_delete(p, "u2", r)
    \/ \E p \in Procs : DestroyCascade(p)
    \/ \E p \in Procs : DestroyDelete(p)
    \/ \E p \in Procs : Validate(p)
    \/ \E p \in Procs : IngredientsDelete(p)
    \/ \E p \in Procs : IngredientCreate(p)
    \/ \E p \in Procs : TagsSet(p)
    \/ \E p \in Procs : TagsAdd(p)
    \/ \E p \in Procs : Save(p)
    \/ \E p \in Procs : SuperSave(p)
    \/ \E p \in Procs : SuperSaveInsert(p)

SpecPerm == InitPerm /\ [][NextPerm]_vars

\* Share links: recipes are created and deleted while clients request the
\* get-link endpoint and the short-link paths of the sampled tokens.
ShortLinkPaths ==
    UNION {{ << str(new_short_url(s)) >>,
             << lit("s"), str(new_short_url(s)) >>,
             << lit("recipes"), lit("s"), str(new_short_url(s)) >> } :
              s \in 1..MaxDraws}

GetLinkPaths ==
    {<< lit("api"), lit("recipes"), num(r), lit("get-link") >> : r \in RecipeIds}

NextLink ==
    \/ NextCreate
    \/ \E p \in Procs : \E path \in ShortLinkPaths \cup GetLinkPaths :
          Get(p, path)
    \/ \E p \in Procs, r \in RecipeIds : recipes_RecipeLinkView_get(p, r)

SpecLink == Init /\ [][NextLink]_vars

\* The shopping cart over a database that already holds recipes: as many
\* recipes as there are sampled tokens were created by u1, and cart requests
\* of all users and recipe deletions follow.
CartDatabase ==
    /\ recipes = [r \in RecipeIds |->
                    IF r <= MaxDraws
                    THEN [short_link |-> new_short_url(r), author |-> "u1",
                          name |-> "borsch"]
                    ELSE NoRecipe]
    /\ nextId = MaxRecipes + 1
    /\ cart = {}
    /\ cartNextId = 1
    /\ pc = [p \in Procs |-> "idle"]
    /\ req = [p \in Procs |-> NoReq]
    /\ inst = [p \in Procs |-> NoInst]
    /\ item = [p \in Procs |-> 0]
    /\ retried = [p \in Procs |-> FALSE]
    /\ response = NoResponse
    /\ recipe_ingredients =
         [r \in RecipeIds |->
            IF r <= MaxDraws THEN << [ingredient |-> 1, amount |-> 20] >>
            ELSE << >>]
    /\ recipe_tags = {[recipe |-> r, tag |-> 1] : r \in 1..MaxDraws}
    /\ shopping_list = {}
    /\ group_order = [i \in IngredientIds |-> i]
    /\ cart_order = "pk"
    /\ data = [p \in Procs |-> NoData]
    /\ NoSocialRows

\* the requests of SpecCart delete recipe 1 only
InitCart == CartDatabase /\ AppsLast

\* the same database under every order of the applications
InitFav == CartDatabase /\ cascade_order \in CascadeOrders

NextCart ==
    \/ \E p \in Procs, u \in Users, r \in RecipeIds : RelationPost(p, u, r)
    \/ \E p \in Procs : RelationExists(p)
    \/ \E p \in Procs : RelationCreate(p)
    \/ \E p \in Procs, u \in Users, r \in RecipeIds : RelationDelete(p, u, r)
    \/ \E p \in Procs : RelationFirst(p)
    \/ \E p \in Procs : RelationItemDelete(p)
    \/ \E p \in Procs, u \in Users : DestroyRecipe(p, u, 1)
    \/ \E p \in Procs : DestroyCascade(p)
    \/ \E p \in Procs : DestroyDelete(p)

SpecCart == InitCart /\ [][NextCart]_vars

\* Concurrent updates: the stored recipes of u1 are updated by two workers;
\* every update handled by w1 carries the ingredient list of OnlyFlour and
\* every update handled by w2 that of OnlyEgg.  The lists share no
\* ingredient, so no INSERT of an update meets the UniqueConstraint and
\* every update that starts completes.
OnlyFlour ==
    [tags |-> << 1 >>,
     ingredients |-> << [ingredient |-> 1, amount |-> 30] >>,
     cooking_time |-> 1]

OnlyEgg ==
    [tags |-> << 2 >>,
     ingredients |-> << [ingredient |-> 2, amount |-> 2] >>,
     cooking_time |-> 1]

UpdateBody(p) == IF p = "w1" THEN OnlyFlour ELSE OnlyEgg

NextUpdate ==
    \/ \E p \in Procs, r \in RecipeIds :
          UpdateRecipe(p, "u1", r, "soup", UpdateBody(p))
    \/ \E p \in Procs : Validate(p)
    \/ \E p \in Procs : IngredientsDelete(p)
    \/ \E p \in Procs : IngredientCreate(p)
    \/ \E p \in Procs : TagsSet(p)
    \/ \E p \in Procs : TagsRemove(p)
    \/ \E p \in Procs : TagsAdd(p)
    \/ \E p \in Procs : Save(p)
    \/ \E p \in Procs : SuperSave(p)

SpecUpdate == InitCart /\ [][NextUpdate]_vars

\* Favorites: both users add favorites of recipe 1 and of a recipe that is
\* not stored through FavoriteView, u2 removes its favorite of recipe 1, u1
\* adds and removes favorites through the favorites app, and the author
\* deletes recipe 1.
NextFav ==
    \/ \E p \in Procs, u \in Users, r \in {1, MaxRecipes} :
          FavoritePost(p, u, r)
    \/ \E p \in Procs : FavoriteExists(p)
    \/ \E p \in Procs : FavoriteCreate(p)
    \/ \E p \in Procs, r \in {1, MaxRecipes} :
          favorites_FavoriteViewSet_create(p, "u1", r)
    \/ \E p \in Procs : favorites_FavoriteSerializer_validate(p)
    \/ \E p \in Procs : favorites_FavoriteSerializer_create(p)
    \/ \E p \in Procs, r \in {1, MaxRecipes} :
          favorites_FavoriteViewSet_destroy(p, "u1", r)
    \/ \E p \in Procs : favorites_Favorite_delete(p)
    \/ \E p \in Procs : FavoriteDelete(p, "u2", 1)
    \/ \E p \in Procs : FavoriteFirst(p)
    \/ \E p \in Procs : FavoriteItemDelete(p)
    \/ \E p \in Procs : DestroyRecipe(p, "u1", 1)
    \/ \E p \in Procs : DestroyCascade(p)
    \/ \E p \in Procs : DestroyDelete(p)

SpecFav == InitFav /\ [][NextFav]_vars

\* Deletion: u1 is the author of recipe 1 "borsch" and recipe 2 "soup".  u1
\* puts both recipes into the cart, puts recipe 1 into the favorites,
\* updates recipe 1 (worker w1), downloads the cart (worker w2) and deletes
\* recipe 1, all handled concurrently, under both orders of the cart query.
InitDelete ==
    /\ recipes = [r \in RecipeIds |->
                    IF r <= 2
                    THEN [short_link |-> new_short_url(r), author |-> "u1",
                          name |-> IF r = 1 THEN "borsch" ELSE "soup"]
                    ELSE NoRecipe]
    /\ nextId = MaxRecipes + 1
    /\ cart = {}
    /\ cartNextId = 1
    /\ pc = [p \in Procs |-> "idle"]
    /\ req = [p \in Procs |-> NoReq]
    /\ inst = [p \in Procs |-> NoInst]
    /\ item = [p \in Procs |-> 0]
    /\ retried = [p \in Procs |-> FALSE]
    /\ response = NoResponse
    /\ recipe_ingredients =
         [r \in RecipeIds |->
            IF r <= 2 THEN << [ingredient |-> 1, amount |-> 20] >>
            ELSE << >>]
    /\ recipe_tags = {[recipe |-> r, tag |-> 1] : r \in 1..2}
    /\ shopping_list = {}
    /\ group_order = [i \in IngredientIds |-> i]
    /\ cart_order \in CartOrders
    /\ AppsLast
    /\ data = [p \in Procs |-> NoData]
    /\ NoSocialRows

NextDelete ==
    \/ \E p \in Procs : recipes_RecipeDetailView_delete(p, "u1", 1)
    \/ \E p \in Procs : DestroyCascade(p)
    \/ \E p \in Procs : DestroyDelete(p)
    \/ \E p \in Procs, r \in 1..2 : RelationPost(p, "u1", r)
    \/ \E p \in Procs : RelationExists(p)
    \/ \E p \in Procs : RelationCreate(p)
    \/ \E p \in Procs : FavoritePost(p, "u1", 1)
    \/ \E p \in Procs : FavoriteExists(p)
    \/ \E p \in Procs : FavoriteCreate(p)
    \/ UpdateRecipe("w1", "u1", 1, "soup", OnlyEgg)
    \/ \E p \in Procs : Validate(p)
    \/ \E p \in Procs : IngredientsDelete(p)
    \/ \E p \in Procs : IngredientCreate(p)
    \/ \E p \in Procs : TagsSet(p)
    \/ \E p \in Procs : TagsRemove(p)
    \/ \E p \in Procs : TagsAdd(p)
    \/ \E p \in Procs : Save(p)
    \/ \E p \in Procs : SuperSave(p)
    \/ \E p \in Procs : SuperSaveInsert(p)
    \/ DownloadShoppingCart("w2", "u1")
    \/ \E p \in Procs : DownloadSelect(p)
    \/ \E p \in Procs : DownloadRender(p)

SpecDelete == InitDelete /\ [][NextDelete]_vars

\* the sequences that list every element of a set once
Orders(S) ==
    {f \in [1..Cardinality(S) -> S] : \A i, j \in 1..Cardinality(S) :
                                          f[i] = f[j] => i = j}

\* The downloads of the shopping cart and of the shopping list: recipe 1
\* (flour, 20 g) is stored, one more recipe (flour 30 g, egg 2 pcs) is
\* created while u1 adds recipes to the cart and to the list, removes them
\* and downloads.  The database returns the groups of an aggregate in one
\* of the possible orders.
InitDownload ==
    /\ recipes = [r \in RecipeIds |->
                    IF r = 1
                    THEN [short_link |-> new_short_url(1), author |-> "u1",
                          name |-> "borsch"]
                    ELSE NoRecipe]
    /\ nextId = MaxRecipes
    /\ cart = {}
    /\ cartNextId = 1
    /\ pc = [p \in Procs |-> "idle"]
    /\ req = [p \in Procs |-> NoReq]
    /\ inst = [p \in Procs |-> NoInst]
    /\ item = [p \in Procs |-> 0]
    /\ retried = [p \in Procs |-> FALSE]
    /\ response = NoResponse
    /\ recipe_ingredients =
         [r \in RecipeIds |->
            IF r = 1 THEN << [ingredient |-> 1, amount |-> 20] >> ELSE << >>]
    /\ recipe_tags = {[recipe |-> 1, tag |-> 1]}
    /\ shopping_list = {}
    /\ group_order \in Orders(IngredientIds)
    /\ cart_order \in CartOrders
    /\ AppsLast
    /\ data = [p \in Procs |-> NoData]
    /\ NoSocialRows

NextDownload ==
    \/ \E p \in Procs : CreateRecipe(p, "u1", "soup", FlourEgg)
    \/ \E p \in Procs : Validate(p)
    \/ \E p \in Procs : Save(p)
    \/ \E p \in Procs : generate_short_url(p)
    \/ \E p \in Procs : SuperSave(p)
    \/ \E p \in Procs : TagsSet(p)
    \/ \E p \in Procs : TagsAdd(p)
    \/ \E p \in Procs : IngredientCreate(p)
    \/ \E p \in Procs, r \in RecipeIds : RelationPost(p, "u1", r)
    \/ \E p \in Procs : RelationExists(p)
    \/ \E p \in Procs : RelationCreate(p)
    \/ \E p \in Procs, r \in RecipeIds : RelationDelete(p, "u1", r)
    \/ \E p \in Procs : RelationFirst(p)
    \/ \E p \in Procs : RelationItemDelete(p)
    \/ \E p \in Procs : DownloadShoppingCart(p, "u1")
    \/ \E p \in Procs : DownloadSelect(p)
    \/ \E p \in Procs : DownloadRender(p)
    \/ \E p \in Procs, r \in RecipeIds : ShoppingListCreate(p, "u1", r)
    \/ \E p \in Procs : ShoppingListValidate(p)
    \/ \E p \in Procs : ShoppingListInsert(p)
    \/ \E p \in Procs, r \in RecipeIds : ShoppingListDestroy(p, "u1", r)
    \/ \E p \in Procs : ShoppingListDelete(p)
    \/ \E p \in Procs : download_shopping_list(p, "u1")

SpecDownload == InitDownload /\ [][NextDownload]_vars

\* ------------------------------------------------------------ properties
\* the 62 characters [A-Za-z0-9]
AlnumChars ==
    { "A","B","C","D","E","F","G","H","I","J","K","L","M",
      "N","O","P","Q","R","S","T","U","V","W","X","Y","Z",
      "a","b","c","d","e","f","g","h","i","j","k","l","m",
      "n","o","p","q","r","s","t","u","v","w","x","y","z",
      "0","1","2","3","4","5","6","7","8","9" }

WellFormedToken(t) ==
    /\ Len(t) = 6
    /\ \A i \in 1..Len(t) : t[i] \in AlnumChars

CreateFailed == [op |-> "create", status |-> 500]

\* C1: whatever the interleaving of the creations' existence checks and
\* saves, no two persisted recipes hold the same short_link.
C1_ShortLinkUnique ==
    \A r1 \in RecipeIds : \A r2 \in RecipeIds :
        (r1 /= r2 /\ Persisted(r1) /\ Persisted(r2))
            => recipes[r1].short_link /= recipes[r2].short_link

\* two creations chose the same token; one is stored, the other was refused
C1_Witness ==
    /\ response = CreateFailed
    /\ \E r \in RecipeIds : Persisted(r)

\* C2: a creation whose save is refused by the unique index on short_link
\* draws a new token and saves again; the refusal never reaches the requester.
C2_CreateNeverFails == response /= CreateFailed

\* C3: a step never changes the short_link of a recipe that stays persisted,
\* and an update holds the stored short_link of its recipe when it writes.
C3_ShortLinkImmutable ==
    [][ /\ \A r \in RecipeIds :
             (recipes[r] /= NoRecipe /\ recipes'[r] /= NoRecipe)
                 => recipes'[r].short_link = recipes[r].short_link
        /\ \A p \in Procs :
             (pc[p] = "write" /\ req[p].op = "update"
                  /\ recipes[req[p].rid] /= NoRecipe)
                 => inst[p].short_link = recipes[req[p].rid].short_link
      ]_vars

\* an update has been saved under a new name
C3_Witness ==
    /\ response = [op |-> "update", status |-> 200]
    /\ \E r \in RecipeIds : Persisted(r) /\ recipes[r].name = "soup"

\* C4: every persisted recipe has a short_link, and generate_short_url runs
\* only in the first save of a new instance, which has no token yet.
C4_AssignedOnceAtFirstSave ==
    /\ \A r \in RecipeIds : Persisted(r) => recipes[r].short_link /= NoToken
    /\ \A p \in Procs :
         pc[p] = "gen" =>
             /\ req[p].op = "create"
             /\ inst[p].pk = 0
             /\ inst[p].short_link = NoToken

\* a later save of a persisted recipe has passed the test without generating
C4_Witness ==
    \E p \in Procs :
        /\ req[p].op = "update"
        /\ pc[p] = "write"
        /\ Persisted(req[p].rid)

\* C5: every token generate_short_url has returned and every stored
\* short_link has exactly 6 characters, each from [A-Za-z0-9].
C5_TokenShape ==
    /\ \A r \in RecipeIds : Persisted(r) => WellFormedToken(recipes[r].short_link)
    /\ \A p \in Procs :
         inst[p].short_link /= NoToken => WellFormedToken(inst[p].short_link)

\* a stored token with lower-case letters, upper-case letters and a digit
C5_Witness ==
    \E r \in RecipeIds :
        Persisted(r) /\ recipes[r].short_link = << "l","w","H","S","3","e" >>

\* C6: generate_short_url returns a candidate only if no persisted recipe
\* held it at the existence check; while it loops it holds no candidate.
C6_ReturnsUnusedToken ==
    [][ \A p \in Procs :
          /\ (pc[p] = "gen" /\ pc'[p] = "write")
                 => ~short_link_exists(inst'[p].short_link)
          /\ (pc[p] = "gen" /\ pc'[p] = "gen")
                 => inst'[p].short_link = NoToken
      ]_vars

\* a candidate was discarded and a later one returned
C6_Witness ==
    \E p \in Procs :
        /\ pc[p] = "write"
        /\ req[p].op = "create"
        /\ retried[p]
        /\ inst[p].short_link /= NoToken

AllTokensHeld == \A s \in 1..MaxDraws : short_link_exists(new_short_url(s))

\* C7: under a fair random source generate_short_url does not loop for ever
\* while some token is free.
C7_GenerateTerminates ==
    \A p \in Procs :
        (pc[p] = "gen") ~> (pc[p] /= "gen" \/ AllTokensHeld)

\* generate_short_url has returned after going round the loop
C7_Witness ==
    \E p \in Procs :
        /\ pc[p] = "write"
        /\ req[p].op = "create"
        /\ retried[p]
        /\ \E r \in RecipeIds : Persisted(r)

\* C8: a step of generate_short_url leaves the recipe table as it is.
C8_GenerateOnlyReads ==
    [][ \A p \in Procs :
          (pc[p] = "gen" /\ << pc'[p], inst'[p], retried'[p] >>
                               /= << pc[p], inst[p], retried[p] >>)
              => (recipes' = recipes /\ nextId' = nextId /\ cart' = cart)
      ]_vars

\* a token has been chosen and is not stored yet
C8_Witness ==
    \E p \in Procs :
        /\ pc[p] = "write"
        /\ req[p].op = "create"
        /\ inst[p].short_link /= NoToken
        /\ ~short_link_exists(inst[p].short_link)

\* C9: at most one shopping-cart row exists per (user, recipe) pair.
C9_CartPairUnique ==
    \A a \in cart : \A b \in cart :
        (a.user = b.user /\ a.recipe = b.recipe) => a.id = b.id

\* two concurrent adds of one pair: one row stored, the other INSERT refused
C9_Witness ==
    /\ response = [op |-> "cart_add", status |-> 500]
    /\ cart /= {}
    /\ \A r \in RecipeIds : r <= MaxDraws => Persisted(r)

\* C10: an add request that finds the pair in the cart is answered 400 and
\* changes no cart row, and no add is answered 201 over an existing pair.
C10_DuplicateAddRejected ==
    [][ \A p \in Procs :
          /\ (pc[p] = "rel_exists" /\ pc'[p] /= "rel_exists"
                  /\ relation_rows(req[p].user, req[p].rid) /= {})
                 => (response' = [op |-> "cart_add", status |-> 400]
                         /\ cart' = cart)
          /\ (pc[p] = "rel_create" /\ pc'[p] /= "rel_create"
                  /\ relation_rows(req[p].user, req[p].rid) /= {})
                 => (response'.status /= 201 /\ cart' = cart)
      ]_vars

\* a duplicate add has just been refused, the cart still holding the row
C10_Witness ==
    /\ response = [op |-> "cart_add", status |-> 400]
    /\ cart /= {}

\* the ingredient lines of a downloaded file
ItemLines(body) ==
    LET is_item(l) == l.kind \in {"item", "total"} IN SelectSeq(body, is_item)

\* the recipes in the cart of user u
CartRecipes(u) == {row.recipe : row \in {c \in cart : c.user = u}}

RECURSIVE SumAmounts(_, _)
\* sum of the amounts of ingredient i in a sequence of RecipeIngredient rows
SumAmounts(rows, i) ==
    IF rows = << >> THEN 0
    ELSE (IF Head(rows).ingredient = i THEN Head(rows).amount ELSE 0)
             + SumAmounts(Tail(rows), i)

RECURSIVE TotalOver(_, _)
\* sum of the amounts of ingredient i over a set of recipes
TotalOver(rs, i) ==
    IF rs = {} THEN 0
    ELSE LET r == CHOOSE x \in rs : TRUE
         IN  SumAmounts(recipe_ingredients[r], i) + TotalOver(rs \ {r}, i)

\* positions of the lines of a file that name ingredient i
LinesOf(items, i) ==
    {k \in 1..Len(items) :
        /\ items[k].name = Ingredients[i].name
        /\ items[k].unit = Ingredients[i].measurement_unit}

\* C11: a downloaded shopping list has exactly one line for every
\* (name, measurement unit) among the ingredients of the cart's recipes, its
\* amount the sum over all those rows, and no other ingredient line.
C11_OneSummedLinePerIngredient ==
    (response.op = "download" /\ response.status = 200) =>
        LET items == ItemLines(response.body)
            rs == CartRecipes(response.user)
        IN  \A i \in IngredientIds :
                IF TotalOver(rs, i) > 0
                THEN /\ Cardinality(LinesOf(items, i)) = 1
                     /\ \A k \in LinesOf(items, i) :
                            items[k].amount = TotalOver(rs, i)
                ELSE LinesOf(items, i) = {}

\* the ingredient names in ascending order
NamesAscending == << "egg", "flour" >>

NameRank(name) == CHOOSE k \in 1..Len(NamesAscending) : NamesAscending[k] = name

\* C12: the ingredient lines of a downloaded shopping list are in ascending
\* order of ingredient name, whatever the order in which the recipes and
\* their ingredient rows were stored.
C12_LinesSortedByName ==
    (response.op \in {"download", "list_download"} /\ response.status = 200) =>
        LET items == ItemLines(response.body)
        IN  \A j \in 1..Len(items) : \A k \in 1..Len(items) :
                j < k => NameRank(items[j].name) <= NameRank(items[k].name)

\* C13: a download requested by a user who has no entry in the cart (or in
\* the shopping list) is answered 400 and never with a text file, also after
\* the user has added recipes and removed them all.
C13_EmptyCartRefused ==
    [][ /\ \A p \in Procs :
             (pc[p] = "idle" /\ req'[p].op = "download")
                 => {row \in cart : row.user = req'[p].user} /= {}
        /\ (response'.op = "list_download"
               /\ {row \in shopping_list : row.user = response'.user} = {})
              => response'.status = 400
      ]_vars

\* the rows of every table
Database ==
    << recipes, nextId, cart, cartNextId, recipe_ingredients, recipe_tags,
       shopping_list >>

\* the cart rows of the user whose download worker p handles
RequestRows(p) == {row \in cart : row.user = req[p].user}

\* C14: a download only reads: no step of a download request changes a
\* cart, recipe or recipe-ingredient row, and its output is determined by the
\* rows stored: a cart download whose queries met no modification sends the
\* lines of the stored cart, and two downloads of the list of one user that
\* follow each other give the same output.
C14_DownloadOnlyReads ==
    [][ /\ ( \/ response'.op \in {"download", "list_download"}
             \/ \E p \in Procs : pc[p] = "idle" /\ req'[p].op = "download"
             \/ \E p \in Procs : pc[p] = "dl_select" /\ pc'[p] = "dl_render" )
              => Database' = Database
        /\ \A p \in Procs :
              ( /\ pc[p] = "dl_render"
                /\ pc'[p] = "idle"
                /\ data[p].rows = cart_recipes(RequestRows(p)) )
                 => response'.body = cart_lines(RequestRows(p))
        /\ ( /\ response.op = "list_download"
             /\ response'.op = response.op
             /\ response.status = 200
             /\ response'.status = 200
             /\ response'.user = response.user )
              => response'.body = response.body
      ]_vars

\* a file with ingredient lines has been sent, the cart still holds its rows
\* and a second download of the same user is about to read it
C14_Witness ==
    /\ response.op = "download"
    /\ response.status = 200
    /\ Len(ItemLines(response.body)) >= 2
    /\ {row \in cart : row.user = response.user} /= {}
    /\ \E p \in Procs : pc[p] = "dl_render" /\ req[p].user = response.user

\* the recipe that holds a token
RecipeOfToken(t) == CHOOSE r \in RecipeIds : Persisted(r) /\ recipes[r].short_link = t

\* C15: a GET of the short-link path with the token some recipe holds is
\* answered with a redirect to the detail URL of that recipe, and with a
\* token no recipe holds it is answered "not found".
C15_ShortLinkRedirects ==
    (response.op = "get" /\ response.path \in ShortLinkPaths) =>
        LET t == response.path[Len(response.path)].str
        IN  IF short_link_exists(t)
            THEN /\ response.status \in {301, 302}
                 /\ response.location =
                        << lit("api"), lit("recipes"), num(RecipeOfToken(t)) >>
            ELSE response.status = 404

\* C16: the share link the get-link endpoint returns for an existing recipe
\* is built from the recipe's stored short_link and not from its primary key.
C16_LinkBuiltFromToken ==
    (response.op = "get_link" /\ Persisted(response.rid)) =>
        /\ response.status = 200
        /\ \E k \in 1..Len(response.link) :
               response.link[k] = str(recipes[response.rid].short_link)
        /\ \A k \in 1..Len(response.link) :
               response.link[k] /= num(response.rid)

\* C17: whatever creations and updates have run, also two updates of one
\* recipe at the same time, no two RecipeIngredient rows hold the same
\* (recipe, ingredient) pair.
C17_RecipeIngredientUnique ==
    \A r \in RecipeIds :
        \A j \in 1..Len(recipe_ingredients[r]) :
            \A k \in 1..Len(recipe_ingredients[r]) :
                recipe_ingredients[r][j].ingredient
                    = recipe_ingredients[r][k].ingredient => j = k

\* two updates of one recipe run together and the INSERT of one of them
\* meets the row the other has just stored
C17_Witness ==
    \E p \in Procs : \E q \in Procs :
        /\ p /= q
        /\ req[p].op = "update" /\ req[q].op = "update"
        /\ req[p].rid = req[q].rid
        /\ pc[p] = "ingr"
        /\ Persisted(inst[p].pk)
        /\ recipe_ingredient_conflict(inst[p].pk,
                                      Head(data[p].ingredients).ingredient)

\* C18: a recipe of the cart that has no RecipeIngredient row adds nothing to
\* the download: when the cart holds another recipe too, the output is the
\* output for the cart without that recipe.
C18_EmptyRecipeAddsNothing ==
    /\ (response.op = "download" /\ response.status = 200) =>
          LET rows == {row \in cart : row.user = response.user}
          IN  \A row \in rows :
                  (recipe_ingredients[row.recipe] = << >> /\ rows /= {row})
                      => response.body = cart_lines(rows \ {row})
    /\ response.op = "list_download" =>
          LET rs == {row.recipe :
                        row \in {x \in shopping_list : x.user = response.user}}
          IN  \A r \in rs :
                  (recipe_ingredients[r] = << >> /\ rs /= {r})
                      => response.body = total_lines(rs \ {r})

\* C19: every PUT, PATCH or DELETE of a recipe by a user who is not its
\* author is refused and leaves the recipe, its tags and its ingredient rows
\* as they are, while a GET is served to every user.  (All requests are sent
\* by u2; recipe 1 belongs to u1.)
C19_OnlyAuthorWrites ==
    /\ \A p \in Procs :
         (req[p].op \in {"update", "put", "patch"} /\ Persisted(req[p].rid))
             => recipes[req[p].rid].author = req[p].user
    /\ recipes[1] = ForeignRecipe
    /\ recipe_ingredients[1] = << [ingredient |-> 1, amount |-> 20] >>
    /\ {row \in recipe_tags : row.recipe = 1} = {[recipe |-> 1, tag |-> 1]}
    /\ (response.op = "retrieve" /\ Persisted(response.rid))
          => response.status = 200

\* A body that breaks a rule the claim lists
Rejectable(d) ==
    \/ d.tags = << >>
    \/ \E i, j \in 1..Len(d.tags) : i /= j /\ d.tags[i] = d.tags[j]
    \/ \E i \in 1..Len(d.tags) : d.tags[i] \notin TagIds
    \/ d.ingredients = << >>
    \/ \E i, j \in 1..Len(d.ingredients) :
          i /= j /\ d.ingredients[i].ingredient = d.ingredients[j].ingredient
    \/ \E i \in 1..Len(d.ingredients) : d.ingredients[i].amount < 1
    \/ d.cooking_time < 1

\* C20: a create or update request whose tags are missing, empty, repeated
\* or unknown, whose ingredient list is empty or repeats an ingredient, which
\* has an amount below 1 or a cooking_time below 1 is answered with a
\* validation error (400), and the step that answers it stores and changes
\* nothing; the request never gets past validation.
C20_InvalidBodyRejected ==
    [][\A p \in Procs :
         (pc[p] = "validate" /\ Rejectable(data[p]) /\ pc'[p] /= "validate")
             => /\ pc'[p] = "idle"
                /\ response'.op = req[p].op
                /\ response'.status = 400
                /\ Database' = Database]_vars

\* An update with a rejectable body has just been refused while the stored
\* recipe still has its row, its tag and its ingredient row.
C20_Witness ==
    /\ response = [op |-> "update", status |-> 400]
    /\ Persisted(1)
    /\ recipe_ingredients[1] = << [ingredient |-> 1, amount |-> 20] >>
    /\ [recipe |-> 1, tag |-> 1] \in recipe_tags

\* the step answers the update request of worker p with 200
UpdateCompletes(p) ==
    /\ req[p].op = "update"
    /\ pc[p] = "write"
    /\ pc'[p] = "idle"
    /\ response' = [op |-> "update", status |-> 200]

\* C21: when an update with ingredient list L is answered 200 the recipe's
\* rows are exactly the (ingredient, amount) pairs of L, none of its earlier
\* rows is left, and no step of an update touches the rows of a recipe other
\* than the one it addresses.
C21_RowsAreTheList ==
    [][/\ \A p \in Procs :
            UpdateCompletes(p) =>
                /\ SeqToSet(recipe_ingredients'[req[p].rid])
                      = SeqToSet(UpdateBody(p).ingredients)
                /\ Len(recipe_ingredients'[req[p].rid])
                      = Len(UpdateBody(p).ingredients)
       /\ \A r \in RecipeIds :
            recipe_ingredients'[r] /= recipe_ingredients[r] =>
                \E p \in Procs : /\ req[p].op = "update"
                                 /\ req[p].rid = r
                                 /\ pc[p] \in {"ingr_delete", "ingr"}]_vars

\* another worker is still between the first and the last ingredient
\* statement of an update of the recipe that worker p updates
UpdateStillWriting(p) ==
    \E q \in Procs \ {p} :
        /\ req[q].op = "update"
        /\ req[q].rid = req[p].rid
        /\ pc[q] \in {"validate", "ingr_delete", "ingr"}

\* C29: two concurrent updates of one recipe with ingredient lists L1 and
\* L2 that both complete leave the recipe with exactly the rows of L1 or
\* exactly the rows of L2.  Every update of this specification completes, so
\* whenever one is answered while no other is still writing rows of the
\* same recipe, the rows are those of one of the two lists.
C29_NoMixedIngredientRows ==
    [][\A p \in Procs :
         (UpdateCompletes(p) /\ ~UpdateStillWriting(p)) =>
             recipe_ingredients'[req[p].rid]
                 \in {OnlyFlour.ingredients, OnlyEgg.ingredients}]_vars

\* the rows of the three per-user recipe lists
RelationTables == << cart, favorites, shopping_list, favorites_app >>

\* C22: a removal from the shopping cart or the favorites that finds no
\* entry of the requesting user for the recipe is answered 400 and changes
\* nothing; a removal that finds the entry deletes the row of that
\* (user, recipe) pair and nothing else: the entries of other users and the
\* user's entries for other recipes stay as they are.
C22_RemoveExactlyTheEntry ==
    [][\A p \in Procs :
         /\ (pc[p] = "rel_first" /\ pc'[p] /= "rel_first"
                /\ relation_rows(req[p].user, req[p].rid) = {})
              => (response' = [op |-> "cart_remove", status |-> 400]
                    /\ RelationTables' = RelationTables)
         /\ (pc[p] = "fav_first" /\ pc'[p] /= "fav_first"
                /\ favorite_rows(req[p].user, req[p].rid) = {})
              => (response' = [op |-> "favorite_remove", status |-> 400]
                    /\ RelationTables' = RelationTables)
         /\ (pc[p] = "idle"
                /\ response'.op \in {"list_remove", "favorites_destroy"}
                /\ response'.status = 400)
              => RelationTables' = RelationTables
         /\ (pc[p] = "idle" /\ req'[p].op = "list_remove")
              => shopping_list_rows(req'[p].user, req'[p].rid) /= {}
         /\ (pc[p] = "idle" /\ req'[p].op = "favorites_destroy")
              => favorites_Favorite_exists(req'[p].user, req'[p].rid)
         /\ (pc[p] = "rel_delete" /\ pc'[p] = "idle")
              => /\ response' = [op |-> "cart_remove", status |-> 204]
                 /\ cart' = cart \ relation_rows(req[p].user, req[p].rid)
                 /\ favorites' = favorites
                 /\ shopping_list' = shopping_list
                 /\ favorites_app' = favorites_app
         /\ (pc[p] = "fav_delete" /\ pc'[p] = "idle")
              => /\ response' = [op |-> "favorite_remove", status |-> 204]
                 /\ favorites' =
                      favorites \ favorite_rows(req[p].user, req[p].rid)
                 /\ cart' = cart
                 /\ shopping_list' = shopping_list
                 /\ favorites_app' = favorites_app
         /\ (pc[p] = "sl_delete" /\ pc'[p] = "idle")
              => /\ response' = [op |-> "list_remove", status |-> 204]
                 /\ shopping_list' =
                      shopping_list
                          \ shopping_list_rows(req[p].user, req[p].rid)
                 /\ cart' = cart
                 /\ favorites' = favorites
                 /\ favorites_app' = favorites_app
         /\ (pc[p] = "favs_delete" /\ pc'[p] = "idle")
              => /\ response' = [op |-> "favorites_destroy", status |-> 204]
                 /\ \A pair \in Users \X RecipeIds :
                      favorites_app'[pair] =
                        IF pair = << req[p].user, req[p].rid >> THEN 0
                        ELSE favorites_app[pair]
                 /\ cart' = cart
                 /\ favorites' = favorites
                 /\ shopping_list' = shopping_list]_vars

\* u1's favorite of recipe 1 has just been removed; u1's favorite of recipe
\* 2 and u2's favorite of recipe 1 are still stored, and so are the rows of
\* the other tables.
C22_Witness ==
    /\ response = [op |-> "favorite_remove", status |-> 204]
    /\ favorite_rows("u1", 1) = {}
    /\ favorite_rows("u1", 2) /= {}
    /\ favorite_rows("u2", 1) /= {}
    /\ cart = held_rows("cart", "favorites")
    /\ favorites_app[KeptPair] = 1

\* C23: at most one Favorite row exists per (user, recipe) pair, in the
\* table of FavoriteView and in the table of the favorites app; an add
\* request that finds the pair among the favorites is answered 400 and
\* leaves the favorites as they are, and no add is answered 201 over a pair
\* that is already stored.
C23_FavoritePairUnique ==
    /\ [](/\ \A a \in favorites : \A b \in favorites :
               (a.user = b.user /\ a.recipe = b.recipe) => a.id = b.id
           /\ \A pair \in Users \X RecipeIds : favorites_app[pair] <= 1)
    /\ [][\A p \in Procs :
            /\ (pc[p] = "fav_exists" /\ pc'[p] /= "fav_exists"
                   /\ favorite_rows(req[p].user, req[p].rid) /= {})
                 => (response' = [op |-> req[p].op, status |-> 400]
                       /\ favorites' = favorites)
            /\ (pc[p] = "fav_create" /\ pc'[p] /= "fav_create"
                   /\ favorite_rows(req[p].user, req[p].rid) /= {})
                 => (response'.status /= 201 /\ favorites' = favorites)
            /\ (pc[p] = "favs_validate" /\ pc'[p] /= "favs_validate"
                   /\ favorites_Favorite_exists(req[p].user, req[p].rid))
                 => (response' = [op |-> req[p].op, status |-> 400]
                       /\ favorites_app' = favorites_app)
            /\ (pc[p] = "favs_create" /\ pc'[p] /= "favs_create"
                   /\ favorites_Favorite_exists(req[p].user, req[p].rid))
                 => (response'.status /= 201
                       /\ favorites_app' = favorites_app)]_vars

\* an add of a recipe that is already a favorite of the user has just been
\* refused, the favorite still being stored, and the favorites app holds a
\* favorite as well
C23_Witness ==
    /\ response = [op |-> "favorite_add", status |-> 400]
    /\ favorites /= {}
    /\ \E pair \in Users \X RecipeIds : favorites_app[pair] = 1

\* the email or the username of a registration is held by a stored user
Taken(d) == email_exists(d.email) \/ username_exists(d.username)

\* C24: no two users share an email and no two users share a username, in
\* the table the registration endpoint writes and in the table of
\* FoodgramUser, also when registrations run concurrently; a registration
\* whose email or username is taken is refused and stores no user, and a
\* create_user call stores a row only when neither value is held.
C24_EmailAndUsernameUnique ==
    /\ [](\A i \in 1..Len(users) : \A j \in 1..Len(users) :
            i /= j => /\ users[i].email /= users[j].email
                      /\ users[i].username /= users[j].username)
    /\ [](\A i \in 1..Len(foodgram_users) :
          \A j \in 1..Len(foodgram_users) :
            i /= j => /\ foodgram_users[i].email /= foodgram_users[j].email
                      /\ foodgram_users[i].username
                            /= foodgram_users[j].username)
    /\ [][\A p \in Procs :
            (req[p].op = "register" /\ pc'[p] = "idle" /\ Taken(data[p]))
                => (response'.status \in {400, 500} /\ users' = users)]_vars
    /\ [][foodgram_users' /= foodgram_users =>
            LET row == foodgram_users'[Len(foodgram_users')]
            IN  /\ response'.raised = ""
                /\ ~foodgram_user_conflict(row.email, row.username)]_vars

\* C25: at most one Subscription row exists per (user, author) pair, in the
\* table of the users app and in the table of the subscriptions app; a
\* subscribe request that finds the user subscribed to the author is answered
\* 400 and changes nothing, and no subscribe is answered 201 over a pair that
\* is already stored.
C25_SubscriptionPairUnique ==
    /\ [](\A pair \in Users \X Users :
             subscriptions[pair] <= 1 /\ subscriptions_app[pair] <= 1)
    /\ [][\A p \in Procs :
            /\ (pc[p] = "sub_exists" /\ pc'[p] /= "sub_exists"
                   /\ subscription_exists(req[p].user, data[p].author))
                 => (response' = [op |-> req[p].op, status |-> 400]
                       /\ subscriptions' = subscriptions)
            /\ (pc[p] = "sub_create" /\ pc'[p] /= "sub_create"
                   /\ subscription_exists(req[p].user, data[p].author))
                 => (response'.status /= 201
                       /\ subscriptions' = subscriptions)
            /\ (pc[p] = "subs_exists" /\ pc'[p] /= "subs_exists"
                   /\ subscriptions_Subscription_exists(req[p].user,
                                                        data[p].author))
                 => (response' = [op |-> req[p].op, status |-> 400]
                       /\ subscriptions_app' = subscriptions_app)
            /\ (pc[p] = "subs_create" /\ pc'[p] /= "subs_create"
                   /\ subscriptions_Subscription_exists(req[p].user,
                                                        data[p].author))
                 => (response'.status /= 201
                       /\ subscriptions_app' = subscriptions_app)]_vars

\* a subscribe request of a subscribed user has just been refused and the
\* subscription is still stored; the subscriptions app holds one as well
C25_Witness ==
    /\ response = [op |-> "subscribe", status |-> 400]
    /\ subscriptions[<< "u1", "u2" >>] = 1
    /\ subscriptions_app[<< "u2", "u1" >>] = 1

\* C26: no Subscription row has its user as its author; a request of a user
\* to subscribe to themselves is answered 400 and is never taken further.
C26_NoSelfSubscription ==
    /\ \A u \in Users :
         subscriptions[<< u, u >>] = 0 /\ subscriptions_app[<< u, u >>] = 0
    /\ \A p \in Procs :
         req[p].op \in {"subscribe", "subscriptions_subscribe"}
             => req[p].user /= data[p].author
    /\ ("author" \in DOMAIN response
          /\ response.op \in {"subscribe", "subscriptions_subscribe"}
          /\ response.user = response.author)
         => response.status = 400

\* u1 has just been refused a subscription to u1 while subscribed to u2
C26_Witness ==
    /\ response = [op |-> "subscribe", status |-> 400,
                   user |-> "u1", author |-> "u1"]
    /\ subscriptions[<< "u1", "u2" >>] = 1

\* C27: when two add-to-cart requests for one (user, recipe) pair have both
\* passed the existence test, the request whose INSERT comes second is
\* answered with the 400 of a duplicate add and adds no row, so that exactly
\* one row of the pair is stored.
C27_LostRaceAnswered400 ==
    [][\A p \in Procs :
         (pc[p] = "rel_create" /\ pc'[p] /= "rel_create"
            /\ Persisted(req[p].rid)
            /\ relation_rows(req[p].user, req[p].rid) /= {})
              => /\ response' = [op |-> "cart_add", status |-> 400]
                 /\ cart' = cart
                 /\ Cardinality(relation_rows(req[p].user, req[p].rid)) = 1
      ]_vars

\* C28: every stored recipe has at least one RecipeIngredient row in every
\* state, so that a read, which sees the tables as they are between two
\* statements of a create or an update, never finds a stored recipe with an
\* empty ingredient list.
C28_StoredRecipeHasIngredients ==
    \A r \in RecipeIds : Persisted(r) => recipe_ingredients[r] /= << >>
\* the recipe headings of a downloaded file, in the order of the file
Headings(body) ==
    LET is_heading(l) == l.kind = "recipe" IN SelectSeq(body, is_heading)

\* every row of the cart, the favorites of either app, the shopping list,
\* the recipe ingredients and the recipe tags refers to a stored recipe
RowsReferToRecipes ==
    /\ \A row \in cart : Persisted(row.recipe)
    /\ \A row \in favorites : Persisted(row.recipe)
    /\ \A r \in RecipeIds : ~Persisted(r) => recipe_ingredients[r] = << >>
    /\ \A row \in recipe_tags : Persisted(row.recipe)
    /\ \A row \in shopping_list : Persisted(row.recipe)
    /\ \A pair \in Users \X RecipeIds :
         favorites_app[pair] > 0 => Persisted(pair[2])

\* C30: in every state each ShoppingCart, Favorite and RecipeIngredient row
\* refers to a stored recipe; the query of a download selects every cart row
\* of the user together with a recipe that is stored when the query runs,
\* and the file has a heading for exactly the selected recipes, so a recipe
\* deleted before the download read the cart is not listed.
C30_DeletedRecipeLeavesNoRow ==
    /\ []RowsReferToRecipes
    /\ [][ \A p \in Procs :
             /\ (pc[p] = "dl_select" /\ pc'[p] = "dl_render") =>
                  LET rows == data'[p].rows IN
                  /\ Len(rows) = Cardinality(RequestRows(p))
                  /\ \A k \in 1..Len(rows) :
                        /\ Persisted(rows[k].recipe)
                        /\ rows[k].name = recipes[rows[k].recipe].name
                        /\ \E row \in RequestRows(p) :
                              row.recipe = rows[k].recipe
             /\ (pc[p] = "dl_render" /\ pc'[p] = "idle") =>
                  LET rows == data[p].rows
                      heads == Headings(response'.body)
                  IN  /\ Len(heads) = Len(rows)
                      /\ \A k \in 1..Len(rows) : heads[k].name = rows[k].name
         ]_vars

\* recipe 1 was deleted while it was in the cart and in the favorites of u1
\* (both tables have handed out primary keys to rows that are gone), and a
\* download of u1 that followed lists the one recipe left in the cart
C30_Witness ==
    /\ response.op = "download"
    /\ response.status = 200
    /\ ~Persisted(1)
    /\ cartNextId = 3
    /\ Cardinality(cart) = 1
    /\ favNextId > 1
    /\ favorites = {}
    /\ Len(Headings(response.body)) = 1

====
